---- MODULE Spec2Model ----
(***************************************************************************)
(* photo-tagger: matching media capture times to dives, resolving the      *)
(* ambiguity, writing GPS through the EXIF backends and the batch loop of   *)
(* the command line.                                                        *)
(*                                                                          *)
(* Times are seconds on one time line (Python datetimes with one-second     *)
(* resolution, as produced by strptime with %S).  An Optional value is a    *)
(* sequence of length at most one: None is <<>>, a value v is <<v>>.        *)
(***************************************************************************)
EXTENDS Integers, Sequences, FiniteSets, TLC

VARIABLES
    dives,        \* DiveMatcher.dives: the dive index, sorted by start time
    m_pc,         \* get_user_confirmed_match: "idle", "prompt", "done", "raised"
    m_path,       \* the image_path argument of the current call
    photo_time,   \* find_matches: the capture time read, None before it is read
    matches,      \* the ranked list returned by find_matches
    presented,    \* the candidates printed before the prompt (matches[:5])
    m_result,     \* the Optional[Match] returned
    prompts,      \* number of input() calls of the current call
    last_input,   \* what the last input() call produced
    g_pc,         \* set_gps_coordinates: "idle", "exiv2", "piexif", "done"
    g_args,       \* its arguments and the file it is called on
    g_tried,      \* the write backends attempted so far, in order
    g_wrote,      \* the write backends that wrote without error
    g_result,     \* "none" before the return, then "True", "False" or "raised"
    dry_run,      \* main: the --dry-run flag
    media_files,  \* main: the sorted list of media files found
    b_idx,        \* main: number of files the loop has visited
    processed_count, skipped_count, error_count,
    matched_dives,    \* main: numbers of the dives some file was matched to
    photo_timestamps, \* main: capture times of the files seen
    item,         \* what the last loop iteration did (for observation)
    media_gps,    \* per media file (by position): coordinates written in it
    sidecars,     \* per sidecar path: the sidecar file
    b_pc,         \* main: "loop" while in the for loop, then "exited"
    visited,      \* main: the files the loop body was entered for, in order
    exit_status,  \* the process exit status, None while main is running
    warnings,     \* what the camera tag check listed, None before it ran
    sidecar_users, \* per sidecar path: the media files whose sidecar it was
    x_media,      \* create_xmp_sidecar: the media file the processor is on
    x_capture,    \* the capture time get_capture_time reads from that file
    x_file,       \* the sidecar file of that media file
    x_initial,    \* the sidecar file before the first call
    x_given,      \* the keywords passed to the calls that wrote so far
    x_written,    \* some call has written the sidecar
    x_call,       \* the arguments and the return value of the last call
    dm_pc,        \* GPS round trip: given, written or read
    dm_axis,      \* latitude or longitude
    dm_value,     \* the decimal the degrees were parsed from, in micro-degrees
    dm_binary64,  \* sign of (|the float handed to the write| - |that decimal|)
    dm_exif,      \* the GPS reference and rationals stored in the EXIF block
    dm_read,      \* what get_current_gps returns, in thousandths of a second
    ct_pc,        \* get_capture_time: idle, the backend consulted next, done
    ct_file,      \* the date/time tags the image file holds
    ct_views,     \* per backend: it raises on the file, or the tags it exposes
    ct_consulted, \* the backends consulted in this call, in order
    ct_result,    \* the value returned, None for no timestamp
    o_call,       \* a read or write operation of a processor and its outcome
    o_runs,       \* how many times that operation has run the external tool
    o_result      \* what the operation gave its caller

mvars == <<dives, m_pc, m_path, photo_time, matches, presented, m_result,
           prompts, last_input>>
gvars == <<g_pc, g_args, g_tried, g_wrote, g_result>>
bvars == <<dry_run, media_files, b_idx, processed_count, skipped_count, error_count,
           matched_dives, photo_timestamps, item, media_gps, sidecars,
           b_pc, visited, exit_status, warnings, sidecar_users>>
xvars == <<x_media, x_capture, x_file, x_initial, x_given, x_written,
           x_call>>
dvars == <<dm_pc, dm_axis, dm_value, dm_binary64, dm_exif, dm_read>>
cvars == <<ct_pc, ct_file, ct_views, ct_consulted, ct_result>>
ovars == <<o_call, o_runs, o_result>>
vars == <<mvars, gvars, bvars, xvars, dvars, cvars, ovars>>

None == <<>>
Some(x) == <<x>>

----------------------------------------------------------------------------
(* Bounds of the model. *)

MaxDives == 6        \* longest dive list given to the matcher's constructor
MaxPrompts == 3      \* input() calls followed within one disambiguation
MaxFiles == 2        \* longest media list of a batch
MaxBatchDives == 2   \* longest dive list of a batch

----------------------------------------------------------------------------
(* Dives and sites (subsurface_parser.py). *)

DiveSite(name, latitude, longitude) ==
    [name |-> name, latitude |-> latitude, longitude |-> longitude]

Dive(number, time, duration_minutes, site, tags) ==
    [number |-> number, time |-> time,
     duration_minutes |-> duration_minutes, site |-> site, tags |-> tags]

\* Coordinates are decimal degrees counted in millionths.
SiteReef == DiveSite("Reef", Some(21123456), Some(-72654321))
SiteEquator == DiveSite("Equator", Some(0), Some(73500000))
SiteUnknown == DiveSite("Unknown Site", None, None)

DiveKind(time, duration_minutes, site, tags) ==
    [time |-> time, duration_minutes |-> duration_minutes, site |-> site,
     tags |-> tags]

\* The dives a list is drawn from: 10:00 for 45 minutes, 10:00 for 0
\* minutes, 11:00 for 150 minutes (longer than two hours).
DiveKinds ==
    { DiveKind(36000, 45, SiteReef, {}), DiveKind(36000, 0, SiteReef, {}),
      DiveKind(39600, 150, SiteReef, {}) }

\* Capture times: both ends of the windows, one second past them, exactly
\* two hours from a start and one second more, one minute after a long dive.
PhotoTimes ==
    { 28799, 28800, 35000, 36000, 37800, 38700, 38701, 43200, 43201, 48660 }

SeqsUpTo(S, n) == UNION { [1..k -> S] : k \in 0..n }

\* The list handed to the constructor: the dive number is the position in
\* that list, which keeps dives of equal start time and duration apart.
DiveList(kinds) ==
    [i \in 1..Len(kinds) |->
        Dive(i, kinds[i].time, kinds[i].duration_minutes, kinds[i].site,
             kinds[i].tags)]

----------------------------------------------------------------------------
(* DiveMatcher (matcher.py). *)

InsertAt(s, p, e) ==
    [i \in 1..(Len(s) + 1) |->
        IF i <= p THEN s[i] ELSE IF i = p + 1 THEN e ELSE s[i - 1]]

\* sorted(dives, key=lambda d: d.time) is stable: an element is placed
\* behind every already placed element that does not sort after it.
DivePos(e, s) ==
    Cardinality({ i \in 1..Len(s) : ~(e.time < s[i].time) })

RECURSIVE SortDives(_)
SortDives(s) ==
    IF s = <<>> THEN <<>>
    ELSE LET front == SortDives(SubSeq(s, 1, Len(s) - 1))
             e == s[Len(s)]
         IN InsertAt(front, DivePos(e, front), e)

Abs(x) == IF x < 0 THEN -x ELSE x

TwoHoursSeconds == 7200

check_time_overlap_exclusive_end(pt, dive) ==
    LET dive_start == dive.time
        dive_end == dive.time + 60 * dive.duration_minutes
    IN IF dive_start <= pt /\ pt < dive_end THEN "within_dive"
       ELSE IF Abs(pt - dive_start) <= TwoHoursSeconds THEN "near_dive"
       ELSE "None"

check_time_overlap_from_end(pt, dive) ==
    LET dive_start == dive.time
        dive_end == dive.time + 60 * dive.duration_minutes
    IN IF dive_start <= pt /\ pt <= dive_end THEN "within_dive"
       ELSE IF Abs(pt - dive_start) <= TwoHoursSeconds
               \/ Abs(pt - dive_end) <= TwoHoursSeconds THEN "near_dive"
       ELSE "None"

\* time_diff = abs(total_seconds) / 3600 <= 2.0 is total_seconds <= 7200.
check_time_overlap(pt, dive) ==
    LET dive_start == dive.time
        dive_end == dive.time + 60 * dive.duration_minutes
    IN IF dive_start <= pt /\ pt <= dive_end THEN "within_dive"
       ELSE IF Abs(pt - dive_start) <= TwoHoursSeconds THEN "near_dive"
       ELSE "None"

confidence_priority(confidence) ==
    CASE confidence = "within_dive" -> 1
      [] confidence = "near_dive" -> 2
      [] confidence = "uncertain" -> 3
      [] OTHER -> 4

Match(path, dive, pt, confidence) ==
    [image_path |-> path, dive |-> dive, photo_time |-> pt,
     confidence |-> confidence]

TimeDelta(m) == Abs(m.photo_time - m.dive.time)

\* The sort key (priority, absolute difference), compared as Python tuples.
MatchBefore(a, b) ==
    \/ confidence_priority(a.confidence) < confidence_priority(b.confidence)
    \/ /\ confidence_priority(a.confidence) = confidence_priority(b.confidence)
       /\ TimeDelta(a) < TimeDelta(b)

\* An unstable sort: an element is placed in front of its equals.
MatchPosUnstable(e, s) ==
    Cardinality({ i \in 1..Len(s) : MatchBefore(s[i], e) })

\* sorted(matches, key=...) is stable.
MatchPos(e, s) ==
    Cardinality({ i \in 1..Len(s) : ~MatchBefore(e, s[i]) })

RECURSIVE SortMatches(_)
SortMatches(s) ==
    IF s = <<>> THEN <<>>
    ELSE LET front == SortMatches(SubSeq(s, 1, Len(s) - 1))
             e == s[Len(s)]
         IN InsertAt(front, MatchPos(e, front), e)

\* The loop over self.dives: one Match per dive with a match type.
RECURSIVE CollectMatches(_, _, _)
CollectMatches(path, pt, ds) ==
    IF ds = <<>> THEN <<>>
    ELSE LET front == CollectMatches(path, pt, SubSeq(ds, 1, Len(ds) - 1))
             dive == ds[Len(ds)]
             match_type == check_time_overlap(pt, dive)
         IN IF match_type # "None"
            THEN Append(front, Match(path, dive, pt, match_type))
            ELSE front

\* find_matches once the capture time has been read.
RankedMatches(path, capture, ds) ==
    IF capture = None THEN <<>>
    ELSE SortMatches(CollectMatches(path, capture[1], ds))

----------------------------------------------------------------------------
(* Media paths and the processors' constructors. *)

ImageExtensions == { ".cr3", ".cr2", ".jpg", ".jpeg", ".tiff", ".tif" }
VideoExtensions == { ".mp4", ".mov", ".avi", ".m4v", ".mkv" }

Path(stem, ext) == [stem |-> stem, ext |-> ext]

\* ImageProcessor.__init__ on an existing file: raises ValueError unless the
\* extension is an image extension.
ImageProcessorAccepts(path) == path.ext \in ImageExtensions

----------------------------------------------------------------------------
(* InteractiveMatcher.get_user_confirmed_match (matcher.py). *)

EOFError == "EOFError"
KeyboardInterrupt == "KeyboardInterrupt"

\* What input() can produce: a line of text, or one of the two signals.
Lines == { "0", " 0", "00", "1", "2", "5", "6", "7", "-1", "abc", "" }
Inputs == Lines \cup { EOFError, KeyboardInterrupt }

\* str.strip() on the lines above.
Strip(line) == IF line = " 0" THEN "0" ELSE line

\* int() on the stripped lines above: None stands for ValueError.
IntOf(text) ==
    CASE text = "0" -> Some(0)
      [] text = "00" -> Some(0)
      [] text = "1" -> Some(1)
      [] text = "2" -> Some(2)
      [] text = "5" -> Some(5)
      [] text = "6" -> Some(6)
      [] text = "7" -> Some(7)
      [] text = "-1" -> Some(-1)
      [] OTHER -> None

MaxOptions == 5

\* matches[:5]
FirstOptions(ms) ==
    SubSeq(ms, 1, IF Len(ms) < MaxOptions THEN Len(ms) ELSE MaxOptions)

IsWithin(m) == m.confidence = "within_dive"

Returned(r) == [pc |-> "done", result |-> r]
Prompting == [pc |-> "prompt", result |-> None]

ResolveNoShortcut(ms) ==
    IF ms = <<>> THEN Returned(None)
    ELSE IF Len(ms) = 1 THEN Returned(Some(ms[1]))
    ELSE Prompting

ResolvePromptsSingle(ms) ==
    IF ms = <<>> THEN Returned(None)
    ELSE IF SelectSeq(ms, IsWithin) # <<>>
         THEN Returned(Some(SelectSeq(ms, IsWithin)[1]))
    ELSE Prompting

\* The part of get_user_confirmed_match before the prompt.
Resolve(ms) ==
    IF ms = <<>> THEN Returned(None)
    ELSE IF Len(ms) = 1 THEN Returned(Some(ms[1]))
    ELSE IF SelectSeq(ms, IsWithin) # <<>>
         THEN Returned(Some(SelectSeq(ms, IsWithin)[1]))
    ELSE Prompting

ChoiceOutcomeAllMatches(inp, ms) ==
    IF inp = EOFError THEN Returned(None)
    ELSE IF inp = KeyboardInterrupt THEN Prompting
    ELSE LET choice == Strip(inp)
         IN IF choice = "0" THEN Returned(None)
            ELSE IF IntOf(choice) = None THEN Prompting
            ELSE LET choice_idx == IntOf(choice)[1] - 1
                 IN IF 0 <= choice_idx /\ choice_idx < Len(ms)
                    THEN Returned(Some(ms[choice_idx + 1]))
                    ELSE Prompting

\* One turn of the while loop: input(), then the selection or the handlers.
ChoiceOutcome(inp, ms) ==
    IF inp = EOFError THEN Returned(None)
    ELSE IF inp = KeyboardInterrupt THEN Prompting
    ELSE LET choice == Strip(inp)
         IN IF choice = "0" THEN Returned(None)
            ELSE IF IntOf(choice) = None THEN Prompting
            ELSE LET choice_idx == IntOf(choice)[1] - 1
                 IN IF 0 <= choice_idx /\ choice_idx < Len(FirstOptions(ms))
                    THEN Returned(Some(ms[choice_idx + 1]))
                    ELSE Prompting

\* The caller takes the returned match (or the exception); the matcher keeps
\* nothing of the call but its dive index.
ReturnToCaller ==
    /\ m_pc \in { "done", "raised" }
    /\ m_pc' = "idle"
    /\ m_path' = Path("", "")
    /\ photo_time' = None
    /\ matches' = <<>>
    /\ presented' = <<>>
    /\ m_result' = None
    /\ prompts' = 0
    /\ last_input' = "none"
    /\ UNCHANGED <<dives, gvars, bvars, xvars, dvars, cvars, ovars>>

MatcherPaths == { Path("IMG_1", ".jpg"), Path("MOV_1", ".mp4") }
Captures == { None } \cup { Some(t) : t \in PhotoTimes }

\* A call of get_user_confirmed_match on a file with the given capture time,
\* up to its return or to the first input().
GetUserConfirmedMatch(path, capture) ==
    /\ m_pc = "idle"
    /\ m_path' = path
    /\ prompts' = 0
    /\ last_input' = "none"
    /\ IF ~ImageProcessorAccepts(path)
       THEN /\ m_pc' = "raised"
            /\ photo_time' = None
            /\ matches' = <<>>
            /\ presented' = <<>>
            /\ m_result' = None
       ELSE LET ms == RankedMatches(path, capture, dives)
                r == Resolve(ms)
            IN /\ photo_time' = capture
               /\ matches' = ms
               /\ m_pc' = r.pc
               /\ m_result' = r.result
               /\ presented' = IF r.pc = "prompt" THEN FirstOptions(ms)
                                ELSE <<>>
    /\ UNCHANGED <<dives, gvars, bvars, xvars, dvars, cvars, ovars>>

\* One input() call of the prompt loop and what the loop does with it.
PromptInput(inp) ==
    /\ m_pc = "prompt"
    /\ prompts < MaxPrompts
    /\ prompts' = prompts + 1
    /\ last_input' = inp
    /\ LET r == ChoiceOutcome(inp, matches)
       IN /\ m_pc' = r.pc
          /\ m_result' = r.result
    /\ UNCHANGED <<dives, m_path, photo_time, matches, presented, gvars, bvars, xvars, dvars, cvars, ovars>>

----------------------------------------------------------------------------
(* ImageProcessor.set_gps_coordinates (image_processor.py). *)

\* What a write backend does with the file: it writes, or it raises (a
\* malformed file, a format it cannot write, an I/O error).
BackendOutcomes == { "wrote", "raised" }

\* "Fallback to piexif (works with JPEG, TIFF)": on a RAW file it raises.
PiexifOutcomes(path) ==
    IF path.ext \in { ".cr3", ".cr2" } THEN { "raised" } ELSE BackendOutcomes

\* _set_gps_coordinates_exiv2 / _set_gps_coordinates_piexif: True when the
\* backend wrote, False when anything was raised inside the try block.
BackendReturn(outcome) == outcome = "wrote"

AfterExiv2NoFallback(outcome) ==
    IF BackendReturn(outcome) THEN [pc |-> "done", result |-> "True"]
    ELSE [pc |-> "done", result |-> "False"]

\* if self._set_gps_coordinates_exiv2(...): return True, else go on.
AfterExiv2(outcome) ==
    IF BackendReturn(outcome) THEN [pc |-> "done", result |-> "True"]
    ELSE [pc |-> "piexif", result |-> "none"]

\* A fallback that starts over with exiv2 when piexif did not write.
AfterPiexifStartsOver(outcome) ==
    IF BackendReturn(outcome) THEN [pc |-> "done", result |-> "True"]
    ELSE [pc |-> "exiv2", result |-> "none"]

\* return self._set_gps_coordinates_piexif(...)
AfterPiexif(outcome) ==
    [pc |-> "done",
     result |-> IF BackendReturn(outcome) THEN "True" ELSE "False"]

GpsPaths == { Path("IMG_1", ".cr3"), Path("IMG_1", ".jpg"),
              Path("IMG_2", ".tif") }
Latitudes == { 21123456, 0, -8500000 }
Longitudes == { -72654321, 0, 73500000 }

\* Entry of set_gps_coordinates: dry_run returns True at once.
SetGpsCoordinates(path, latitude, longitude, dry) ==
    /\ g_pc \in { "idle", "done" }
    /\ g_args' = [path |-> path, latitude |-> latitude,
                  longitude |-> longitude, dry_run |-> dry]
    /\ g_tried' = <<>>
    /\ g_wrote' = {}
    /\ IF dry
       THEN g_pc' = "done" /\ g_result' = "True"
       ELSE g_pc' = "exiv2" /\ g_result' = "none"
    /\ UNCHANGED <<mvars, bvars, xvars, dvars, cvars, ovars>>

\* The exiv2 attempt and the branch on its return value.
TryExiv2(outcome) ==
    /\ g_pc = "exiv2"
    /\ g_tried' = Append(g_tried, "exiv2")
    /\ g_wrote' = IF outcome = "wrote" THEN g_wrote \cup { "exiv2" }
                  ELSE g_wrote
    /\ g_pc' = AfterExiv2(outcome).pc
    /\ g_result' = AfterExiv2(outcome).result
    /\ UNCHANGED <<g_args, mvars, bvars, xvars, dvars, cvars, ovars>>

\* The piexif attempt, whose return value is the call's.
TryPiexif(outcome) ==
    /\ g_pc = "piexif"
    /\ g_tried' = Append(g_tried, "piexif")
    /\ g_wrote' = IF outcome = "wrote" THEN g_wrote \cup { "piexif" }
                  ELSE g_wrote
    /\ g_pc' = AfterPiexif(outcome).pc
    /\ g_result' = AfterPiexif(outcome).result
    /\ UNCHANGED <<g_args, mvars, bvars, xvars, dvars, cvars, ovars>>

\* The value set_gps_coordinates(dry_run=False) returns on an image, given
\* what each backend would do with the file.
ImageSetGps(exiv2_outcome, piexif_outcome) ==
    IF AfterExiv2(exiv2_outcome).pc = "done"
    THEN AfterExiv2(exiv2_outcome).result = "True"
    ELSE AfterPiexif(piexif_outcome).result = "True"

\* VideoProcessor.set_gps_coordinates(dry_run=False): exiftool's exit code
\* is 0, or it is not, or subprocess.run raised (timeout, tool missing).
ExiftoolOutcomes == { "exit0", "nonzero", "raised" }
VideoSetGps(outcome) == outcome = "exit0"

----------------------------------------------------------------------------
(* ImageProcessor.get_capture_time (image_processor.py). *)

\* The three date/time fields of an EXIF block, in the order of preference.
DateTimeFields == << "DateTimeOriginal", "DateTimeDigitized", "DateTime" >>

\* What a field of the file holds when it is a date: the shot at 10:00:00,
\* digitized five seconds later, the file modified at 10:30:00.
GoodText(field) ==
    CASE field = "DateTimeOriginal" -> "2024:01:15 10:00:00"
      [] field = "DateTimeDigitized" -> "2024:01:15 10:00:05"
      [] OTHER -> "2024:01:15 10:30:00"

\* A camera whose clock was never set.
BadText == "0000:00:00 00:00:00"

\* datetime.strptime(dt_str, '%Y:%m:%d %H:%M:%S') on these texts: the
\* seconds of the day, or ValueError (None).
Strptime(dt_str) ==
    CASE dt_str = "2024:01:15 10:00:00" -> Some(36000)
      [] dt_str = "2024:01:15 10:00:05" -> Some(36005)
      [] dt_str = "2024:01:15 10:30:00" -> Some(37800)
      [] OTHER -> None

\* The names under which each backend looks the fields up, in its order.
Exiv2Tags ==
    << "Exif.Photo.DateTimeOriginal", "Exif.Photo.DateTimeDigitized",
       "Exif.Image.DateTime" >>
PiexifTags ==
    << "Exif/DateTimeOriginal", "Exif/DateTimeDigitized", "0th/DateTime" >>
ExifreadTags ==
    << "EXIF DateTimeOriginal", "EXIF DateTimeDigitized", "Image DateTime",
       "DateTime", "EXIF DateTime" >>

DatetimeTags(backend) ==
    CASE backend = "exiv2" -> Exiv2Tags
      [] backend = "piexif" -> PiexifTags
      [] OTHER -> ExifreadTags

\* The field of the file a tag name stands for.
FieldOf(tag_name) ==
    IF tag_name \in { "Exif.Photo.DateTimeOriginal", "Exif/DateTimeOriginal",
                      "EXIF DateTimeOriginal" }
    THEN "DateTimeOriginal"
    ELSE IF tag_name \in { "Exif.Photo.DateTimeDigitized",
                           "Exif/DateTimeDigitized", "EXIF DateTimeDigitized" }
    THEN "DateTimeDigitized"
    ELSE "DateTime"

\* What a backend makes of the file: it raises, or it exposes some of the
\* fields the file holds under some of its tag names.
View(raised, exposed) == [raised |-> raised, exposed |-> exposed]

\* The value a backend has under a tag name: None when it has none.
TagValue(view, file, tag_name) ==
    IF tag_name \in view.exposed THEN file[FieldOf(tag_name)] ELSE None

\* The positions of the tag list whose value is there and parses.
Parseable(datetime_tags, view, file) ==
    { i \in 1..Len(datetime_tags) :
        LET v == TagValue(view, file, datetime_tags[i])
        IN  v # None /\ Strptime(v[1]) # None }

\* The positions whose value is there.
Present(datetime_tags, view, file) ==
    { i \in 1..Len(datetime_tags) :
        TagValue(view, file, datetime_tags[i]) # None }

Lowest(S) == CHOOSE i \in S : \A j \in S : i <= j

\* A tag loop that gives up at the first value that does not parse.
FirstTimestampOrGiveUp(datetime_tags, view, file) ==
    LET there == Present(datetime_tags, view, file)
    IN  IF there = {} THEN None
        ELSE Strptime(TagValue(view, file, datetime_tags[Lowest(there)])[1])

\* for tag_name in datetime_tags: return the first value that strptime
\* accepts; except ValueError: continue.
FirstTimestamp(datetime_tags, view, file) ==
    LET good == Parseable(datetime_tags, view, file)
    IN  IF good = {} THEN None
        ELSE Strptime(TagValue(view, file, datetime_tags[Lowest(good)])[1])

\* _get_capture_time_exiv2 / _piexif / _exifread: try: ... except Exception:
\* return None.
BackendCaptureTime(backend, view, file) ==
    IF view.raised THEN None
    ELSE FirstTimestamp(DatetimeTags(backend), view, file)

Backends == << "exiv2", "piexif", "exifread" >>

\* A chain that goes from exiv2 straight to exifread.
FallbackSkipsPiexif(backend) ==
    CASE backend = "exiv2" -> "exifread"
      [] backend = "piexif" -> "exifread"
      [] OTHER -> "done"

\* get_capture_time: what follows a backend that gave no timestamp.
Fallback(backend) ==
    CASE backend = "exiv2" -> "piexif"
      [] backend = "piexif" -> "exifread"
      [] OTHER -> "done"

\* capture_time = self._get_capture_time_<backend>(); if capture_time:
\* return capture_time (a datetime is always true).
Consult(backend) ==
    /\ ct_pc = backend
    /\ ct_consulted' = Append(ct_consulted, backend)
    /\ LET capture_time ==
               BackendCaptureTime(backend, ct_views[backend], ct_file)
       IN  IF capture_time # None
           THEN ct_pc' = "done" /\ ct_result' = capture_time
           ELSE ct_pc' = Fallback(backend) /\ ct_result' = None
    /\ UNCHANGED <<ct_file, ct_views, mvars, gvars, bvars, xvars, dvars,
                   ovars>>

ConsultExiv2 == Consult("exiv2")
ConsultPiexif == Consult("piexif")
ConsultExifread == Consult("exifread")

\* Entry of get_capture_time.
GetCaptureTime ==
    /\ ct_pc = "idle"
    /\ ct_pc' = "exiv2"
    /\ UNCHANGED <<ct_file, ct_views, ct_consulted, ct_result, mvars, gvars,
                   bvars, xvars, dvars, ovars>>

\* The whole call as a value: the first timestamp along the chain.
RECURSIVE ChainFrom(_, _, _)
ChainFrom(backend, views, file) ==
    IF backend = "done" THEN None
    ELSE LET capture_time == BackendCaptureTime(backend, views[backend], file)
         IN  IF capture_time # None THEN capture_time
             ELSE ChainFrom(Fallback(backend), views, file)

ImageGetCaptureTime(views, file) == ChainFrom("exiv2", views, file)

\* The files of the model: each field absent, not a date, or its date.
FieldSet == { DateTimeFields[i] : i \in 1..Len(DateTimeFields) }
CaptureFiles ==
    { f \in [ FieldSet -> { None, Some(BadText) }
                            \cup { Some(GoodText(x)) : x \in FieldSet } ] :
        \A x \in FieldSet : f[x] \in { None, Some(BadText), Some(GoodText(x)) } }

\* The tag names of a backend whose field the file holds.
PresentNames(backend, file) ==
    { DatetimeTags(backend)[i] : i \in 1..Len(DatetimeTags(backend)) }
        \ { n \in { DatetimeTags(backend)[i] :
                      i \in 1..Len(DatetimeTags(backend)) } :
              file[FieldOf(n)] = None }

\* What a backend can make of a file: it raises (a format it cannot read,
\* a damaged block), or it exposes part of what the file holds, a field
\* under one of its names.
BackendViews(backend, file) ==
    { View(TRUE, {}) }
    \cup { View(FALSE, S) : S \in
             { T \in SUBSET PresentNames(backend, file) :
                 \A n1, n2 \in T : FieldOf(n1) = FieldOf(n2) => n1 = n2 } }

CaptureIdle ==
    /\ ct_pc = "idle"
    /\ ct_file = [x \in FieldSet |-> None]
    /\ ct_views = [exiv2 |-> View(TRUE, {}), piexif |-> View(TRUE, {}),
                   exifread |-> View(TRUE, {})]
    /\ ct_consulted = <<>>
    /\ ct_result = None

----------------------------------------------------------------------------
(* The read and write operations of both processors as their caller sees   *)
(* them (image_processor.py, video_processor.py).                          *)

ToolTimeout == 30

\* subprocess.run(cmd, capture_output=True, text=True, timeout=30): the tool
\* cannot be started, or it runs longer than the timeout, or it ends with
\* an exit code.
SubprocessRun(launch, duration, returncode) ==
    IF launch # "started" THEN "raised"
    ELSE IF duration > ToolTimeout THEN "raised"
    ELSE IF returncode = 0 THEN "exit0" ELSE "nonzero"

\* A method body without its try block.
ExceptNothing(body, soft) == body

\* try: body, except Exception: return soft.
ExceptException(body, soft) == IF body = "raised" THEN soft ELSE body

\* A body that calls subprocess.run again after a failed run.
OnceMoreOnFailure(run) == IF run = "exit0" THEN 1 ELSE 2

\* The subprocess.run calls of a method body: one, with no loop around it.
ToolRuns(run) == 1

\* json.loads(result.stdout)[0] and the date fields of it: output that is
\* not JSON or an empty list raises, a field that is not a string raises
\* TypeError in strptime, a string in none of the three formats is skipped.
VideoCaptureOutputs ==
    { "not json", "[]", "no date", "date not a string", "no format", "date" }

VideoCaptureBody(run, stdout) ==
    IF run = "raised" THEN "raised"
    ELSE IF run = "nonzero" THEN "None"
    ELSE IF stdout \in { "not json", "[]", "date not a string" } THEN "raised"
    ELSE IF stdout = "date" THEN "timestamp"
    ELSE "None"

\* VideoProcessor.get_capture_time
VideoGetCaptureTime(run, stdout) ==
    [result |-> ExceptException(VideoCaptureBody(run, stdout), "None"),
     runs |-> ToolRuns(run)]

\* The GPS fields of the output: float() of a value that is not a number
\* ("21 deg 7' 24.44\" N") raises ValueError.
VideoGpsOutputs ==
    { "not json", "[]", "no gps", "latitude only", "gps not a number", "gps" }

VideoGpsBody(run, stdout) ==
    IF run = "raised" THEN "raised"
    ELSE IF run = "nonzero" THEN "None"
    ELSE IF stdout \in { "not json", "[]", "gps not a number" } THEN "raised"
    ELSE IF stdout = "gps" THEN "coordinates"
    ELSE "None"

\* VideoProcessor.get_current_gps
VideoGetCurrentGps(run, stdout) ==
    [result |-> ExceptException(VideoGpsBody(run, stdout), "None"),
     runs |-> ToolRuns(run)]

\* VideoProcessor.set_gps_coordinates
VideoSetGpsCoordinates(run, dry) ==
    IF dry THEN [result |-> "True", runs |-> 0]
    ELSE [result |-> ExceptException(
                        IF run = "raised" THEN "raised"
                        ELSE IF VideoSetGps(run) THEN "True" ELSE "False",
                        "False"),
          runs |-> ToolRuns(run)]

\* piexif.load and the GPS block: load raises, there is no block, not all
\* four fields are there, a rational has denominator 0 (ZeroDivisionError
\* in _dms_to_decimal), or the block is complete.
ImageGpsOutcomes ==
    { "raised", "no gps", "partial", "zero denominator", "gps" }

ImageGpsBody(outcome) ==
    IF outcome \in { "raised", "zero denominator" } THEN "raised"
    ELSE IF outcome = "gps" THEN "coordinates"
    ELSE "None"

\* ImageProcessor.get_current_gps
ImageGetCurrentGps(outcome) == ExceptException(ImageGpsBody(outcome), "None")

\* What a capture-time backend does with the image of these calls, a file
\* with all three date fields: it raises, exposes nothing, or exposes all.
ImageCaptureOutcomes == { "raised", "empty", "tags" }

OpsFile == [x \in FieldSet |-> Some(GoodText(x))]

OpsView(backend, outcome) ==
    IF outcome = "raised" THEN View(TRUE, {})
    ELSE IF outcome = "empty" THEN View(FALSE, {})
    ELSE View(FALSE, { DatetimeTags(backend)[i] : i \in 1..3 })

\* An operation and what its backends do: unused fields are "" or 0.
Operation(class, op, backends, launch, duration, returncode, stdout, dry) ==
    [class |-> class, op |-> op, backends |-> backends, launch |-> launch,
     duration |-> duration, returncode |-> returncode, stdout |-> stdout,
     dry_run |-> dry]

NoOperation == Operation("", "", <<>>, "", 0, 0, "", FALSE)

ImageGetCaptureTimeCall(exiv2, piexif, exifread) ==
    /\ o_call' = Operation("ImageProcessor", "get_capture_time",
                           << exiv2, piexif, exifread >>, "", 0, 0, "", FALSE)
    /\ o_runs' = 0
    /\ o_result' =
           IF ImageGetCaptureTime(
                  [exiv2 |-> OpsView("exiv2", exiv2),
                   piexif |-> OpsView("piexif", piexif),
                   exifread |-> OpsView("exifread", exifread)],
                  OpsFile) = None
           THEN "None" ELSE "timestamp"
    /\ UNCHANGED <<mvars, gvars, bvars, xvars, dvars, cvars>>

ImageGetCurrentGpsCall(outcome) ==
    /\ o_call' = Operation("ImageProcessor", "get_current_gps",
                           << outcome >>, "", 0, 0, "", FALSE)
    /\ o_runs' = 0
    /\ o_result' = ImageGetCurrentGps(outcome)
    /\ UNCHANGED <<mvars, gvars, bvars, xvars, dvars, cvars>>

ImageSetGpsCoordinatesCall(exiv2, piexif, dry) ==
    /\ o_call' = Operation("ImageProcessor", "set_gps_coordinates",
                           << exiv2, piexif >>, "", 0, 0, "", dry)
    /\ o_runs' = 0
    /\ o_result' = IF dry \/ ImageSetGps(exiv2, piexif) THEN "True"
                   ELSE "False"
    /\ UNCHANGED <<mvars, gvars, bvars, xvars, dvars, cvars>>

VideoGetCaptureTimeCall(launch, duration, returncode, stdout) ==
    LET r == VideoGetCaptureTime(
                 SubprocessRun(launch, duration, returncode), stdout)
    IN  /\ o_call' = Operation("VideoProcessor", "get_capture_time", <<>>,
                               launch, duration, returncode, stdout, FALSE)
        /\ o_runs' = r.runs
        /\ o_result' = r.result
        /\ UNCHANGED <<mvars, gvars, bvars, xvars, dvars, cvars>>

VideoGetCurrentGpsCall(launch, duration, returncode, stdout) ==
    LET r == VideoGetCurrentGps(
                 SubprocessRun(launch, duration, returncode), stdout)
    IN  /\ o_call' = Operation("VideoProcessor", "get_current_gps", <<>>,
                               launch, duration, returncode, stdout, FALSE)
        /\ o_runs' = r.runs
        /\ o_result' = r.result
        /\ UNCHANGED <<mvars, gvars, bvars, xvars, dvars, cvars>>

VideoSetGpsCoordinatesCall(launch, duration, returncode, dry) ==
    LET r == VideoSetGpsCoordinates(
                 SubprocessRun(launch, duration, returncode), dry)
    IN  /\ o_call' = Operation("VideoProcessor", "set_gps_coordinates", <<>>,
                               launch, duration, returncode, "", dry)
        /\ o_runs' = r.runs
        /\ o_result' = r.result
        /\ UNCHANGED <<mvars, gvars, bvars, xvars, dvars, cvars>>

\* exiftool is installed or not; it ends in time, at the limit or after it;
\* its exit code.
Launches == { "started", "FileNotFoundError" }
Durations == { 1, 30, 31 }
ReturnCodes == { 0, 1 }

----------------------------------------------------------------------------
(* main (cli.py): the loop over the media files. *)

\* find_media_files returns sorted(images + videos); these are the paths it
\* can find, in that order.
AllMediaPaths ==
    << Path("IMG_1", ".cr3"), Path("IMG_1", ".jpg"), Path("MOV_1", ".mp4") >>

IthSmallest(S, i) == CHOOSE x \in S : Cardinality({ y \in S : y <= x }) = i

MediaLists ==
    { [i \in 1..Cardinality(S) |-> AllMediaPaths[IthSmallest(S, i)]] :
        S \in { T \in SUBSET (1..Len(AllMediaPaths)) :
                   T # {} /\ Cardinality(T) <= MaxFiles } }

BatchCaptures ==
    { None, Some(35000), Some(36000), Some(37000), Some(90000) }

\* The lines that end a prompt of the batch; any other input is followed by
\* the prompt again.
BatchInputs == { "0", "1", "2" }

\* Python truthiness of an Optional[float]: None and 0.0 are false.
Truthy(opt) == opt # None /\ opt[1] # 0

\* MediaProcessor.create_processor: the class chosen by the extension.
ProcessorClass(path) ==
    IF path.ext \in ImageExtensions THEN "ImageProcessor"
    ELSE IF path.ext \in VideoExtensions THEN "VideoProcessor"
    ELSE "ValueError"

\* os.path.splitext(path)[0] + '.xmp'
SidecarPath(path) == path.stem

----------------------------------------------------------------------------
(* XMP sidecar documents (image_processor.py, video_processor.py).          *)
(*                                                                          *)
(* A sidecar file is None while it does not exist.  A document is either    *)
(* not well-formed XML, or the x:xmptk attribute of its root and the        *)
(* children of each rdf:Description, in document order.  An element is its  *)
(* tag, its text and, for a keyword container, the texts of the rdf:li of   *)
(* its rdf:Bag.  Coordinates are decimal degrees counted in millionths.     *)

MicroDegrees == 1000000

Element(tag, text, li) == [tag |-> tag, text |-> text, li |-> li]

XmpDoc(wellformed, xmptk, descs) ==
    [wellformed |-> wellformed, xmptk |-> xmptk, descs |-> descs]

\* A file lxml cannot parse.
Unparsable == XmpDoc(FALSE, "", <<>>)

KeywordTags == { "dc:subject", "lightroom:hierarchicalSubject" }
GpsTags == { "exif:GPSLatitude", "exif:GPSLongitude" }

\* The keywords of the model in the order of Python's str comparison (by
\* code point: " " < "&" < upper case < lower case).
KeywordOrder ==
    << "Equator", "Existing Keyword", "New Site", "Old Site", "Reef",
       "Salt & Pepper", "Unknown Site", "anemone" >>

KeywordRank(k) == CHOOSE i \in 1..Len(KeywordOrder) : KeywordOrder[i] = k

\* Keywords holding a character that is markup in XML text.
XmlSpecial(k) == k \in { "Salt & Pepper" }

Range(s) == { s[i] : i \in 1..Len(s) }

\* all_keywords.sort() in reverse, as a mutation of the order.
SortKeywordsDescending(S) ==
    [i \in 1..Cardinality(S) |->
        CHOOSE k \in S :
            Cardinality({ j \in S : KeywordRank(j) >= KeywordRank(k) }) = i]

\* list(set(...)) followed by .sort(): each keyword once, ascending.
SortKeywords(S) ==
    [i \in 1..Cardinality(S) |->
        CHOOSE k \in S :
            Cardinality({ j \in S : KeywordRank(j) <= KeywordRank(k) }) = i]

Pad2(n) == IF n < 10 THEN "0" \o ToString(n) ELSE ToString(n)

\* capture_time.strftime("%Y-%m-%dT%H:%M:%S.00Z"), the time line starting
\* at 2024-01-01 00:00:00.
DateTimeText(t) ==
    "2024-01-" \o Pad2(1 + t \div 86400) \o "T" \o Pad2((t % 86400) \div 3600)
        \o ":" \o Pad2((t % 3600) \div 60) \o ":" \o Pad2(t % 60) \o ".00Z"

\* f'{deg},{decimal_min:.2f}{dir}': whole degrees of the absolute value,
\* the rest in minutes rounded to hundredths, then the hemisphere letter.
GpsText(value, positive, negative) ==
    LET a == Abs(value)
        deg == a \div MicroDegrees
        centi == ((a % MicroDegrees) * 6 + 500) \div 1000
    IN ToString(deg) \o "," \o ToString(centi \div 100) \o "." \o
       Pad2(centi % 100) \o (IF value >= 0 THEN positive ELSE negative)

GpsElements(latitude, longitude) ==
    << Element("exif:GPSLatitude", GpsText(latitude, "N", "S"), <<>>),
       Element("exif:GPSLongitude", GpsText(longitude, "E", "W"), <<>>) >>

DateTimeElement(t) == Element("exif:DateTimeOriginal", DateTimeText(t), <<>>)

\* desc.find(tag) and desc.remove(found) taking every child of that tag.
RemoveAll(desc, tag) ==
    LET keep == { i \in 1..Len(desc) : desc[i].tag # tag }
    IN [i \in 1..Cardinality(keep) |-> desc[IthSmallest(keep, i)]]

\* desc.find(tag) finds the first child of that tag, or None;
\* desc.remove(found) takes that one child out.
RemoveFirst(desc, tag) ==
    LET hits == { i \in 1..Len(desc) : desc[i].tag = tag }
    IN IF hits = {} THEN desc
       ELSE LET p == CHOOSE i \in hits : \A j \in hits : i <= j
            IN [i \in 1..(Len(desc) - 1) |->
                   IF i < p THEN desc[i] ELSE desc[i + 1]]

\* The rdf:li texts of the keyword containers among the children of one
\* rdf:Description.
DescKeywords(desc) ==
    UNION { Range(desc[i].li) :
              i \in { j \in 1..Len(desc) : desc[j].tag \in KeywordTags } }

\* _read_existing_xmp_keywords: the rdf:li texts of every dc:subject and
\* lightroom:hierarchicalSubject anywhere in the document ('//'), as a set;
\* the empty list when the file cannot be parsed.
ReadExistingXmpKeywords(doc) ==
    IF ~doc.wellformed THEN {}
    ELSE UNION { DescKeywords(doc.descs[d]) : d \in 1..Len(doc.descs) }

\* _update_xmp_keywords: first dc:subject out, new one appended, then the
\* same for lightroom:hierarchicalSubject.
UpdateXmpKeywords(desc, keywords) ==
    LET d1 == Append(RemoveFirst(desc, "dc:subject"),
                     Element("dc:subject", "", keywords))
    IN Append(RemoveFirst(d1, "lightroom:hierarchicalSubject"),
              Element("lightroom:hierarchicalSubject", "", keywords))

\* _update_xmp_gps: the first element of each GPS tag out, both appended.
UpdateXmpGps(desc, latitude, longitude) ==
    RemoveFirst(RemoveFirst(desc, "exif:GPSLatitude"), "exif:GPSLongitude")
        \o GpsElements(latitude, longitude)

\* _update_xmp_datetime
UpdateXmpDatetime(desc, t) ==
    Append(RemoveFirst(desc, "exif:DateTimeOriginal"), DateTimeElement(t))

\* The template both processors fill in: one rdf:Description holding
\* xmp:Rating, the two keyword containers with the keywords as passed, then
\* the capture time and the GPS elements when there are any.  The keywords
\* are put in unescaped, so one with markup in it spoils the document.
XmpTemplate(keywords, latitude, longitude, capture) ==
    IF \E i \in 1..Len(keywords) : XmlSpecial(keywords[i]) THEN Unparsable
    ELSE XmpDoc(TRUE, "XMP Core 5.5.0",
             << << Element("xmp:Rating", "0", <<>>),
                   Element("lightroom:hierarchicalSubject", "", keywords),
                   Element("dc:subject", "", keywords) >>
                \o (IF capture # None THEN << DateTimeElement(capture[1]) >>
                    ELSE <<>>)
                \o (IF latitude # None /\ longitude # None
                    THEN GpsElements(latitude[1], longitude[1])
                    ELSE <<>>) >>)

\* _create_new_xmp: the template written to the new file.
CreateNewXmp(keywords, latitude, longitude, capture) ==
    [ok |-> TRUE,
     file |-> Some(XmpTemplate(keywords, latitude, longitude, capture))]

\* The update path rewriting the file from the template with the merged
\* keywords, as a mutation of the targeted update.
UpdateExistingXmpFromTemplate(doc, keywords, latitude, longitude, capture) ==
    IF ~doc.wellformed \/ doc.descs = <<>>
    THEN [ok |-> FALSE, file |-> Some(doc)]
    ELSE [ok |-> TRUE,
          file |-> Some(XmpTemplate(
                       SortKeywords(ReadExistingXmpKeywords(doc)
                                        \cup Range(keywords)),
                       latitude, longitude, capture))]

\* _update_existing_xmp: parse, take the first rdf:Description (ValueError
\* when there is none), replace the keyword containers by the sorted union,
\* the GPS elements when both coordinates are passed, the capture time when
\* there is one, and write the tree back.  Any exception returns False
\* before the file is written.
UpdateExistingXmp(doc, keywords, latitude, longitude, capture) ==
    IF ~doc.wellformed \/ doc.descs = <<>>
    THEN [ok |-> FALSE, file |-> Some(doc)]
    ELSE LET all_keywords ==
                 SortKeywords(ReadExistingXmpKeywords(doc)
                                  \cup Range(keywords))
             k == UpdateXmpKeywords(doc.descs[1], all_keywords)
             g == IF latitude # None /\ longitude # None
                  THEN UpdateXmpGps(k, latitude[1], longitude[1])
                  ELSE k
             t == IF capture # None THEN UpdateXmpDatetime(g, capture[1])
                  ELSE g
         IN [ok |-> TRUE, file |-> Some([doc EXCEPT !.descs[1] = t])]

\* create_xmp_sidecar writing a new file from the template when the update
\* of the existing one fails, as a mutation of the failure path.
ImageCreateXmpSidecarRecreates(file, keywords, latitude, longitude, capture, dry, io_ok) ==
    IF dry THEN [ok |-> TRUE, file |-> file]
    ELSE IF ~io_ok THEN [ok |-> FALSE, file |-> file]
    ELSE IF file # None
            /\ UpdateExistingXmp(file[1], keywords, latitude, longitude,
                                 capture).ok
    THEN UpdateExistingXmp(file[1], keywords, latitude, longitude, capture)
    ELSE CreateNewXmp(keywords, latitude, longitude, capture)

\* ImageProcessor.create_xmp_sidecar.  io_ok: the file system lets the
\* sidecar be read and written (otherwise the exception is turned into
\* False and the file is as it was).
ImageCreateXmpSidecar(file, keywords, latitude, longitude, capture, dry, io_ok) ==
    IF dry THEN [ok |-> TRUE, file |-> file]
    ELSE IF ~io_ok THEN [ok |-> FALSE, file |-> file]
    ELSE IF file # None
    THEN UpdateExistingXmp(file[1], keywords, latitude, longitude, capture)
    ELSE CreateNewXmp(keywords, latitude, longitude, capture)

\* VideoProcessor.create_xmp_sidecar: the template is written over whatever
\* is there.
VideoCreateXmpSidecar(file, keywords, latitude, longitude, capture, dry, io_ok) ==
    IF dry THEN [ok |-> TRUE, file |-> file]
    ELSE IF ~io_ok THEN [ok |-> FALSE, file |-> file]
    ELSE [ok |-> TRUE,
          file |-> Some(XmpTemplate(keywords, latitude, longitude, capture))]

\* processor.create_xmp_sidecar for the processor class of the media file.
CreateXmpSidecarOf(path, file, keywords, latitude, longitude, capture, dry, io_ok) ==
    IF ProcessorClass(path) = "ImageProcessor"
    THEN ImageCreateXmpSidecar(file, keywords, latitude, longitude, capture,
                               dry, io_ok)
    ELSE VideoCreateXmpSidecar(file, keywords, latitude, longitude, capture,
                               dry, io_ok)

\* The sidecar documents the model starts from.
\* The file of the repository's tests: the template with two keywords.
DocTest ==
    XmpDoc(TRUE, "XMP Core 5.5.0",
        << << Element("xmp:Rating", "0", <<>>),
              Element("lightroom:hierarchicalSubject", "",
                      << "Existing Keyword", "Old Site" >>),
              Element("dc:subject", "",
                      << "Existing Keyword", "Old Site" >>) >> >>)

\* One rdf:Description written by another tool: keywords in another order,
\* a creator, GPS elements and a capture time.
DocOtherTool ==
    XmpDoc(TRUE, "Other Tool 1.0",
        << << Element("dc:subject", "", << "anemone", "Old Site" >>),
              Element("dc:creator", "A. Diver", <<>>),
              Element("exif:GPSLatitude", "10,30.00N", <<>>),
              Element("exif:GPSLongitude", "20,15.00E", <<>>),
              Element("exif:DateTimeOriginal", "2023-12-31T09:00:00.00Z",
                      <<>>),
              Element("xmp:Rating", "4", <<>>) >> >>)

\* One rdf:Description per namespace: the keywords and the GPS elements
\* are not in the first one.
DocTwoDescriptions ==
    XmpDoc(TRUE, "Other Tool 1.0",
        << << Element("xmp:Rating", "4", <<>>) >>,
           << Element("dc:subject", "", << "Old Site", "Existing Keyword" >>),
              Element("exif:GPSLatitude", "10,30.00N", <<>>),
              Element("exif:GPSLongitude", "20,15.00E", <<>>) >> >>)

\* A description holding the GPS elements twice.
DocTwoGps ==
    XmpDoc(TRUE, "Other Tool 1.0",
        << << Element("dc:subject", "", << "Old Site" >>),
              Element("exif:GPSLatitude", "10,30.00N", <<>>),
              Element("exif:GPSLongitude", "20,15.00E", <<>>),
              Element("exif:GPSLatitude", "11,45.00N", <<>>),
              Element("exif:GPSLongitude", "21,45.00E", <<>>) >> >>)

\* The two keyword containers edited apart: they hold different keywords.
DocContainersDiffer ==
    XmpDoc(TRUE, "Other Tool 1.0",
        << << Element("lightroom:hierarchicalSubject", "", << "Old Site" >>),
              Element("dc:subject", "", << "anemone", "Existing Keyword" >>),
              Element("xmp:Rating", "4", <<>>) >> >>)

\* Well-formed XML without any rdf:Description.
DocNoDescription == XmpDoc(TRUE, "Other Tool 1.0", <<>>)

XmpFiles ==
    { None, Some(Unparsable), Some(DocNoDescription), Some(DocTest),
      Some(DocOtherTool), Some(DocTwoDescriptions), Some(DocTwoGps),
      Some(DocContainersDiffer) }

\* The keyword lists passed: none, the list of the repository's test, a
\* list naming a keyword twice, a keyword with markup in it.
XmpKeywordLists ==
    { <<>>, << "New Site", "Existing Keyword" >>,
      << "anemone", "Reef", "anemone" >>, << "Salt & Pepper" >> }

\* latitude and longitude as passed: none, both, or only one of them.
XmpGpsArguments ==
    { << None, None >>, << Some(21123456), Some(-72654321) >>,
      << Some(-8500000), None >> }

\* processor.create_xmp_sidecar(keywords, latitude, longitude, dry_run) on
\* the media file, the processor being the one of its extension.
CreateXmpSidecar(keywords, latitude, longitude, dry, io_ok) ==
    LET r == CreateXmpSidecarOf(x_media, x_file, keywords, latitude,
                                longitude, x_capture, dry, io_ok)
    IN /\ x_file' = r.file
       /\ x_call' = [called |-> TRUE, keywords |-> keywords,
                     latitude |-> latitude, longitude |-> longitude,
                     dry_run |-> dry, ok |-> r.ok]
       /\ x_given' = IF r.ok /\ ~dry THEN x_given \cup Range(keywords)
                     ELSE x_given
       /\ x_written' = (x_written \/ (r.ok /\ ~dry))
       /\ UNCHANGED <<x_media, x_capture, x_initial, mvars, gvars, bvars, dvars, cvars, ovars>>

----------------------------------------------------------------------------
(* main (cli.py): the loop body and the exit. *)

NoItem ==
    [idx |-> 0, path |-> Path("", ""), capture |-> None, match |-> None,
     gps_attempted |-> FALSE, gps_success |-> FALSE,
     xmp_attempted |-> FALSE, xmp_gps |-> None, xmp_before |-> None,
     xmp_success |-> FALSE, outcome |-> "none"]

\* The early skips leaving the loop body without counting the file, as a
\* mutation of the counters.
CountedButForSkips(outcome) ==
    /\ processed_count' = processed_count + (IF outcome = "processed" THEN 1 ELSE 0)
    /\ skipped_count' = skipped_count
    /\ error_count' = error_count + (IF outcome = "errored" THEN 1 ELSE 0)

\* Each path through the loop body adds one to the counter of its outcome.
Counted(outcome) ==
    /\ processed_count' = processed_count + (IF outcome = "processed" THEN 1 ELSE 0)
    /\ skipped_count' = skipped_count + (IF outcome = "skipped" THEN 1 ELSE 0)
    /\ error_count' = error_count + (IF outcome = "errored" THEN 1 ELSE 0)

\* The loop leaving main as soon as an item is counted as errored, as a
\* mutation of the loop.
AfterItemAbortsOnError(outcome) ==
    IF outcome = "errored" THEN "exited" ELSE "loop"

\* Every path through the loop body, the except branch included, ends the
\* iteration (continue, or the end of the body) and stays in the loop.
AfterItem(outcome) == "loop"

\* processor.create_xmp_sidecar(keywords=[site.name], latitude and longitude
\* only if the in-place write did not succeed, dry_run=False).
SidecarWrite(media_path, site, capture, gps_ok, io_ok) ==
    CreateXmpSidecarOf(media_path, sidecars[SidecarPath(media_path)],
                       << site.name >>,
                       IF ~gps_ok THEN site.latitude ELSE None,
                       IF ~gps_ok THEN site.longitude ELSE None,
                       capture, FALSE, io_ok)

\* What one iteration of the for loop does with the next media file.
\* exists: the file is still there when the processor is created; capture:
\* the capture time its metadata holds; gps_ok: what the in-place write
\* returns; io_ok: the file system lets the sidecar be read and written;
\* inp: the input that ends the prompt loop if it comes to a prompt.
ItemOf(idx, exists, capture, gps_ok, io_ok, inp) ==
    LET media_path == media_files[idx]
        base == [NoItem EXCEPT !.idx = idx, !.path = media_path]
        timed == [base EXCEPT !.capture = capture]
        ms == RankedMatches(media_path, capture, dives)
        r == IF Resolve(ms).pc = "prompt" THEN ChoiceOutcome(inp, ms)
             ELSE Resolve(ms)
        matched == [timed EXCEPT !.match = r.result]
        site == r.result[1].dive.site
        xmp == SidecarWrite(media_path, site, capture, gps_ok, io_ok)
    IN IF ~exists
       THEN \* create_processor raises FileNotFoundError
            [base EXCEPT !.outcome = "errored"]
       ELSE IF capture = None
       THEN \* no capture time
            [base EXCEPT !.outcome = "skipped"]
       ELSE IF ~ImageProcessorAccepts(media_path)
       THEN \* find_matches: ImageProcessor(image_path) raises ValueError
            [timed EXCEPT !.outcome = "errored"]
       ELSE IF r.result = None
       THEN \* no match selected
            [timed EXCEPT !.outcome = "skipped"]
       ELSE IF ~(Truthy(site.latitude) /\ Truthy(site.longitude))
       THEN \* "has no GPS coordinates"
            [matched EXCEPT !.outcome = "skipped"]
       ELSE IF dry_run
       THEN \* WOULD UPDATE
            [matched EXCEPT !.outcome = "processed"]
       ELSE [matched EXCEPT
               !.gps_attempted = TRUE,
               !.gps_success = gps_ok,
               !.xmp_attempted = TRUE,
               !.xmp_gps = IF ~gps_ok
                           THEN Some(<<site.latitude[1], site.longitude[1]>>)
                           ELSE None,
               !.xmp_before = sidecars[SidecarPath(media_path)],
               !.xmp_success = xmp.ok,
               !.outcome = IF xmp.ok THEN "processed" ELSE "errored"]

\* One iteration of the for loop: the counters, the sets main keeps for the
\* camera tag check, the media file and the sidecar.
ProcessItem(exists, capture, gps_ok, io_ok, inp) ==
    /\ b_pc = "loop"
    /\ b_idx < Len(media_files)
    /\ LET idx == b_idx + 1
           media_path == media_files[idx]
           ms == RankedMatches(media_path, capture, dives)
           it == ItemOf(idx, exists, capture, gps_ok, io_ok, inp)
           site == it.match[1].dive.site
           xmp_path == SidecarPath(media_path)
       IN /\ ( /\ exists
                /\ capture # None
                /\ ImageProcessorAccepts(media_path)
                /\ Resolve(ms).pc = "prompt" ) =>
                  ChoiceOutcome(inp, ms).pc = "done"
          /\ b_idx' = idx
          /\ visited' = Append(visited, media_path)
          /\ item' = it
          /\ Counted(it.outcome)
          /\ b_pc' = AfterItem(it.outcome)
          /\ exit_status' = IF AfterItem(it.outcome) = "exited" THEN Some(1)
                            ELSE exit_status
          /\ photo_timestamps' =
                 IF it.capture # None
                 THEN Append(photo_timestamps, capture[1])
                 ELSE photo_timestamps
          /\ matched_dives' =
                 IF it.match # None
                 THEN matched_dives \cup { it.match[1].dive.number }
                 ELSE matched_dives
          /\ media_gps' =
                 IF it.gps_attempted /\ it.gps_success
                 THEN [media_gps EXCEPT ![idx] =
                          Some(<<site.latitude[1], site.longitude[1]>>)]
                 ELSE media_gps
          /\ sidecar_users' =
                 IF it.xmp_attempted
                 THEN [sidecar_users EXCEPT ![xmp_path] = @ \cup { media_path }]
                 ELSE sidecar_users
          /\ sidecars' =
                 IF it.xmp_attempted
                 THEN [sidecars EXCEPT ![xmp_path] =
                          SidecarWrite(media_path, site, capture, gps_ok,
                                       io_ok).file]
                 ELSE sidecars
    /\ UNCHANGED <<dry_run, media_files, warnings, mvars, gvars, xvars, dvars,
                   cvars, ovars>>

\* main returning normally whatever was counted, as a mutation of the exit.
ExitStatusAlwaysZero(errors) == 0

\* sys.exit(1) if error_count > 0, else main returns and the status is 0.
ExitStatus(errors) == IF errors > 0 THEN 1 ELSE 0

\* min(photo_timestamps), max(photo_timestamps)
MinOf(S) == CHOOSE x \in S : \A y \in S : x <= y
MaxOf(S) == CHOOSE x \in S : \A y \in S : y <= x

\* The camera tag check taking for the range of a dive its whole duration,
\* as a mutation of the check.
InPhotoRangeWholeDive(d, oldest_photo, newest_photo) ==
    /\ d.time <= newest_photo
    /\ oldest_photo <= d.time + d.duration_minutes * 60

\* oldest_photo <= d.time <= newest_photo
InPhotoRange(d, oldest_photo, newest_photo) ==
    oldest_photo <= d.time /\ d.time <= newest_photo

\* _check_camera_tag_warnings: the numbers of the dives listed under each
\* of the two headings.  It is called with a non-empty photo_timestamps.
CheckCameraTagWarnings(all_dives, matched, timestamps) ==
    LET oldest_photo == MinOf(Range(timestamps))
        newest_photo == MaxOf(Range(timestamps))
        dives_in_range ==
            { d \in Range(all_dives) :
                InPhotoRange(d, oldest_photo, newest_photo) }
    IN [untagged_with_photos |->
            { d.number : d \in { e \in dives_in_range :
                e.number \in matched /\ "camera" \notin e.tags } },
        tagged_without_photos |->
            { d.number : d \in { e \in dives_in_range :
                "camera" \in e.tags /\ e.number \notin matched } }]

\* After the loop: the summary, the camera tag check and the exit.
Summary ==
    /\ b_pc = "loop"
    /\ b_idx = Len(media_files)
    /\ b_pc' = "exited"
    /\ warnings' =
           IF photo_timestamps # <<>>
           THEN Some(CheckCameraTagWarnings(dives, matched_dives,
                                            photo_timestamps))
           ELSE None
    /\ exit_status' = Some(ExitStatus(error_count))
    /\ UNCHANGED <<dry_run, media_files, b_idx, processed_count, skipped_count,
                   error_count, matched_dives, photo_timestamps, item,
                   media_gps, sidecars, visited, sidecar_users,
                   mvars, gvars, xvars, dvars, cvars, ovars>>

\* The values processor.set_gps_coordinates(dry_run=False) can return on the
\* file: the image chain over its two backends, or exiftool for a video.
SetGpsReturns(path) ==
    IF ProcessorClass(path) = "ImageProcessor"
    THEN { ImageSetGps(e, p) : e \in BackendOutcomes, p \in PiexifOutcomes(path) }
    ELSE { VideoSetGps(x) : x \in ExiftoolOutcomes }

----------------------------------------------------------------------------
(* Initial states and specifications. *)

MatcherIdle ==
    /\ m_pc = "idle"
    /\ m_path = Path("", "")
    /\ photo_time = None
    /\ matches = <<>>
    /\ presented = <<>>
    /\ m_result = None
    /\ prompts = 0
    /\ last_input = "none"

GpsIdle ==
    /\ g_pc = "idle"
    /\ g_args = [path |-> Path("", ""), latitude |-> 0, longitude |-> 0,
                 dry_run |-> FALSE]
    /\ g_tried = <<>>
    /\ g_wrote = {}
    /\ g_result = "none"

SidecarPaths ==
    { SidecarPath(AllMediaPaths[i]) : i \in 1..Len(AllMediaPaths) }

\* main before the first iteration of its loop.
BatchStart ==
    /\ b_pc = "loop"
    /\ b_idx = 0
    /\ visited = <<>>
    /\ exit_status = None
    /\ processed_count = 0
    /\ skipped_count = 0
    /\ error_count = 0
    /\ matched_dives = {}
    /\ photo_timestamps = <<>>
    /\ item = NoItem
    /\ media_gps = [i \in 1..Len(media_files) |-> None]
    /\ warnings = None
    /\ sidecar_users = [x \in SidecarPaths |-> {}]

BatchIdle ==
    /\ BatchStart
    /\ sidecars = [x \in SidecarPaths |-> None]

NoBatch == dry_run = FALSE /\ media_files = <<>>

NoCall ==
    [called |-> FALSE, keywords |-> <<>>, latitude |-> None,
     longitude |-> None, dry_run |-> FALSE, ok |-> FALSE]

XmpIdle ==
    /\ x_media = Path("", "")
    /\ x_capture = None
    /\ x_file = None
    /\ x_initial = None
    /\ x_given = {}
    /\ x_written = FALSE
    /\ x_call = NoCall

OpsIdle ==
    /\ o_call = NoOperation
    /\ o_runs = 0
    /\ o_result = "none"

DmsIdle ==
    /\ dm_pc = "idle"
    /\ dm_axis = "latitude"
    /\ dm_value = 0
    /\ dm_binary64 = 0
    /\ dm_exif = None
    /\ dm_read = None

\* The matcher over every list of at most MaxDives dives.
MatcherDiveLists ==
    { DiveList(kinds) : kinds \in SeqsUpTo(DiveKinds, MaxDives) }

Init ==
    /\ dives \in { SortDives(l) : l \in MatcherDiveLists }
    /\ MatcherIdle /\ GpsIdle /\ NoBatch /\ BatchIdle /\ XmpIdle /\ DmsIdle
    /\ CaptureIdle /\ OpsIdle

Next ==
    \/ \E path \in MatcherPaths, capture \in Captures :
          GetUserConfirmedMatch(path, capture)
    \/ \E inp \in Inputs : PromptInput(inp)
    \/ ReturnToCaller

Spec == Init /\ [][Next]_vars

\* set_gps_coordinates on still images.
InitGps ==
    /\ dives = <<>>
    /\ MatcherIdle /\ GpsIdle /\ NoBatch /\ BatchIdle /\ XmpIdle /\ DmsIdle
    /\ CaptureIdle /\ OpsIdle

NextGps ==
    \/ \E path \in GpsPaths, latitude \in Latitudes, longitude \in Longitudes,
          dry \in BOOLEAN : SetGpsCoordinates(path, latitude, longitude, dry)
    \/ \E outcome \in BackendOutcomes : TryExiv2(outcome)
    \/ \E outcome \in PiexifOutcomes(g_args.path) : TryPiexif(outcome)

SpecGps == InitGps /\ [][NextGps]_vars

\* The batch loop, from the point where the dives and the media files have
\* been found (both lists non-empty, or main has exited).
BatchDiveKinds ==
    { DiveKind(36000, 45, SiteReef, {}),
      DiveKind(36000, 0, SiteEquator, { "camera" }),
      DiveKind(39600, 150, SiteUnknown, { "camera" }) }

BatchDiveLists ==
    { DiveList(kinds) :
        kinds \in SeqsUpTo(BatchDiveKinds, MaxBatchDives) \ { <<>> } }

\* The sidecar a media file of the batch can have before the run: none, one
\* that is not XML, one without rdf:Description, one written earlier.
BatchSidecarFiles ==
    { None, Some(Unparsable), Some(DocNoDescription), Some(DocTest) }

\* The sidecars before the run.  Only a still image gets as far as its
\* sidecar (find_matches raises on a video), so the others start absent.
BatchSidecars ==
    { f \in [SidecarPaths -> BatchSidecarFiles] :
        \A x \in SidecarPaths :
            (\A i \in 1..Len(AllMediaPaths) :
                SidecarPath(AllMediaPaths[i]) = x =>
                    ~ImageProcessorAccepts(AllMediaPaths[i])) => f[x] = None }

InitBatch ==
    /\ dives \in { SortDives(l) : l \in BatchDiveLists }
    /\ dry_run \in BOOLEAN
    /\ media_files \in MediaLists
    /\ sidecars \in BatchSidecars
    /\ MatcherIdle /\ GpsIdle /\ BatchStart /\ XmpIdle /\ DmsIdle
    /\ CaptureIdle /\ OpsIdle

NextBatch ==
    \/ /\ b_idx < Len(media_files)
       /\ \E exists \in BOOLEAN, capture \in BatchCaptures, io_ok \in BOOLEAN,
             inp \in BatchInputs :
             \E gps_ok \in SetGpsReturns(media_files[b_idx + 1]) :
                 ProcessItem(exists, capture, gps_ok, io_ok, inp)
    \/ Summary

SpecBatch == InitBatch /\ [][NextBatch]_vars

\* create_xmp_sidecar called again and again for one media file.
XmpMedia == { Path("IMG_1", ".jpg"), Path("MOV_1", ".mp4") }
XmpCaptures == { None, Some(36000) }

InitXmp ==
    /\ dives = <<>>
    /\ MatcherIdle /\ GpsIdle /\ NoBatch /\ BatchIdle /\ DmsIdle
    /\ CaptureIdle /\ OpsIdle
    /\ x_media \in XmpMedia
    /\ x_capture \in XmpCaptures
    /\ x_file \in XmpFiles
    /\ x_initial = x_file
    /\ x_given = {}
    /\ x_written = FALSE
    /\ x_call = NoCall

\* dry_run and io_ok of a call: io_ok plays no part in a dry run.
XmpModes == { << FALSE, TRUE >>, << FALSE, FALSE >>, << TRUE, TRUE >> }

NextXmp ==
    \E keywords \in XmpKeywordLists, gps \in XmpGpsArguments,
       mode \in XmpModes :
        CreateXmpSidecar(keywords, gps[1], gps[2], mode[1], mode[2])

SpecXmp == InitXmp /\ [][NextXmp]_vars

\* GPS coordinates written to the EXIF block by piexif and read back. A
\* coordinate is the float parsed from a decimal of the dive log: the model
\* keeps the decimal, in whole micro-degrees, and on which side of it the
\* float lies. The stored rationals are exact.
ThousandthsPerDegree == 3600000

\* int(x) of the binary64 value computed for the exact value n / unit. When
\* the exact value is a whole number and the computed one lies just below
\* it, int() takes the whole number before.
IntOfFloat(n, unit, below) ==
    IF below /\ n > 0 /\ n % unit = 0 THEN n \div unit - 1 ELSE n \div unit

\* _decimal_to_dms: ((degrees, 1), (minutes, 1), (int(seconds * 1000), 1000)).
\* minutes_float is in micro-minutes and seconds in micro-seconds.
DecimalToDms(decimal_degrees, below) ==
    LET degrees == decimal_degrees \div MicroDegrees
        minutes_float == (decimal_degrees - degrees * MicroDegrees) * 60
        minutes == IntOfFloat(minutes_float, MicroDegrees, below)
        seconds == (minutes_float - minutes * MicroDegrees) * 60
    IN  << << degrees, 1 >>, << minutes, 1 >>,
           << IntOfFloat(seconds, 1000, below), 1000 >> >>

\* _dms_to_decimal: degrees + minutes / 60 + seconds / 3600, in thousandths
\* of an arc second.
DmsToDecimal(dms_tuple) ==
    (dms_tuple[1][1] * ThousandthsPerDegree) \div dms_tuple[1][2]
    + (dms_tuple[2][1] * (ThousandthsPerDegree \div 60)) \div dms_tuple[2][2]
    + (dms_tuple[3][1] * (ThousandthsPerDegree \div 3600)) \div dms_tuple[3][2]

\* b'N' if latitude >= 0 else b'S', b'E' if longitude >= 0 else b'W'.
GpsRef(axis, value) ==
    IF axis = "latitude"
    THEN IF value >= 0 THEN "N" ELSE "S"
    ELSE IF value >= 0 THEN "E" ELSE "W"

\* The reference that get_current_gps negates on.
NegativeRef(axis) == IF axis = "latitude" THEN "S" ELSE "W"

\* The magnitudes among DmsValues for which the binary64 arithmetic of
\* _decimal_to_dms ends just below a whole number of thousandths that the
\* decimal makes exactly: 0.002 is 7.2 seconds, and
\* ((0.002 - 0) * 60 - 0) * 60 * 1000 is 7199.999999999999.
ComputedBelow ==
    { 2000, 21002000, 72002000, 72050000, 89002000, 89050000 }

\* _set_gps_coordinates_piexif for one axis.
SetGpsCoordinatesPiexif ==
    /\ dm_pc = "given"
    /\ dm_exif' = Some([ref |-> GpsRef(dm_axis, dm_value),
                        dms |-> DecimalToDms(Abs(dm_value),
                                    Abs(dm_value) \in ComputedBelow)])
    /\ dm_pc' = "written"
    /\ UNCHANGED <<dm_axis, dm_value, dm_binary64, dm_read, mvars, gvars, bvars, xvars,
                   cvars, ovars>>

\* get_current_gps for one axis.
GetCurrentGps ==
    /\ dm_pc = "written"
    /\ dm_read' = Some(IF dm_exif[1].ref = NegativeRef(dm_axis)
                       THEN - DmsToDecimal(dm_exif[1].dms)
                       ELSE DmsToDecimal(dm_exif[1].dms))
    /\ dm_pc' = "read"
    /\ UNCHANGED <<dm_axis, dm_value, dm_binary64, dm_exif, mvars, gvars, bvars, xvars,
                   cvars, ovars>>

DmsFractions == { 0, 1, 2000, 50000, 123456, 676944, 999999 }
DmsMagnitudes(whole, limit) ==
    { w * MicroDegrees + f : w \in whole, f \in DmsFractions }
        \cup { limit * MicroDegrees }
DmsValues(axis) ==
    LET magnitudes == IF axis = "latitude"
                      THEN DmsMagnitudes({ 0, 21, 89 }, 90)
                      ELSE DmsMagnitudes({ 0, 72, 179 }, 180)
    IN  magnitudes \cup { - a : a \in magnitudes }

\* The magnitudes among DmsValues whose nearest binary64 number lies above
\* the decimal (0.002 is 0.002000000000000000041...); whole degrees are
\* binary64 numbers, the float of every other magnitude lies below it.
Binary64Above ==
    { 2000, 50000, 21000001, 21050000, 21123456, 72123456, 72676944,
      72999999, 89123456, 89676944, 89999999, 179002000, 179050000,
      179123456, 179999999 }

\* decimal_degrees: float, against the decimal it stands for.
Binary64Side(magnitude) ==
    IF magnitude % MicroDegrees = 0 THEN 0
    ELSE IF magnitude \in Binary64Above THEN 1 ELSE -1

InitDms ==
    /\ dives = <<>>
    /\ MatcherIdle /\ GpsIdle /\ NoBatch /\ BatchIdle /\ XmpIdle
    /\ CaptureIdle /\ OpsIdle
    /\ dm_pc = "given"
    /\ dm_axis \in { "latitude", "longitude" }
    /\ dm_value \in DmsValues(dm_axis)
    /\ dm_binary64 = Binary64Side(Abs(dm_value))
    /\ dm_exif = None
    /\ dm_read = None

NextDms ==
    \/ SetGpsCoordinatesPiexif
    \/ GetCurrentGps

SpecDms == InitDms /\ [][NextDms]_vars

\* get_capture_time on a still image, over the files and what each backend
\* makes of them.
InitCapture ==
    /\ dives = <<>>
    /\ MatcherIdle /\ GpsIdle /\ NoBatch /\ BatchIdle /\ XmpIdle /\ DmsIdle
    /\ OpsIdle
    /\ ct_pc = "idle"
    /\ ct_file \in CaptureFiles
    /\ ct_views \in { [exiv2 |-> e, piexif |-> p, exifread |-> x] :
                        e \in BackendViews("exiv2", ct_file),
                        p \in BackendViews("piexif", ct_file),
                        x \in BackendViews("exifread", ct_file) }
    /\ ct_consulted = <<>>
    /\ ct_result = None

NextCapture ==
    \/ GetCaptureTime
    \/ ConsultExiv2
    \/ ConsultPiexif
    \/ ConsultExifread

SpecCapture == InitCapture /\ [][NextCapture]_vars

\* The operations of both processors called one after another.
InitOps ==
    /\ dives = <<>>
    /\ MatcherIdle /\ GpsIdle /\ NoBatch /\ BatchIdle /\ XmpIdle /\ DmsIdle
    /\ CaptureIdle /\ OpsIdle

NextOps ==
    \/ \E e, p, x \in ImageCaptureOutcomes : ImageGetCaptureTimeCall(e, p, x)
    \/ \E outcome \in ImageGpsOutcomes : ImageGetCurrentGpsCall(outcome)
    \/ \E e, p \in BackendOutcomes, dry \in BOOLEAN :
          ImageSetGpsCoordinatesCall(e, p, dry)
    \/ \E launch \in Launches, duration \in Durations,
          returncode \in ReturnCodes, stdout \in VideoCaptureOutputs :
          VideoGetCaptureTimeCall(launch, duration, returncode, stdout)
    \/ \E launch \in Launches, duration \in Durations,
          returncode \in ReturnCodes, stdout \in VideoGpsOutputs :
          VideoGetCurrentGpsCall(launch, duration, returncode, stdout)
    \/ \E launch \in Launches, duration \in Durations,
          returncode \in ReturnCodes, dry \in BOOLEAN :
          VideoSetGpsCoordinatesCall(launch, duration, returncode, dry)

SpecOps == InitOps /\ [][NextOps]_vars

----------------------------------------------------------------------------
(* Properties of the matcher, checked under Spec. *)

\* find_matches has returned its ranked list for a capture time it read.
Ranked == m_pc \in { "prompt", "done" } /\ photo_time # None

WindowEnd(d) == d.time + 60 * d.duration_minutes
InWindow(t, d) == d.time <= t /\ t <= WindowEnd(d)
DiveSet == { dives[i] : i \in 1..Len(dives) }
MatchesOf(d) == { i \in 1..Len(matches) : matches[i].dive = d }

\* C1: every dive whose window [start, start + duration], both ends
\* included (a single instant when the duration is 0), contains the capture
\* time is returned by find_matches, once, with confidence within_dive.
C1_WithinDive ==
    Ranked =>
        \A d \in DiveSet :
            InWindow(photo_time[1], d) =>
                /\ Cardinality(MatchesOf(d)) = 1
                /\ \A i \in MatchesOf(d) : matches[i].confidence = "within_dive"

\* C1 witness: a dive of duration 0 matched within_dive at its start.
C1_Witness ==
    /\ Ranked
    /\ \E i \in 1..Len(matches) :
          /\ matches[i].dive.duration_minutes = 0
          /\ matches[i].dive.time = photo_time[1]
          /\ matches[i].confidence = "within_dive"

\* C2: a dive whose window does not contain the capture time is returned
\* with confidence near_dive when the capture time is at most two hours
\* (7200 seconds, included) from its start, and is not returned at all when
\* it is further, however close the capture time is to the dive's end.
C2_NearDive ==
    Ranked =>
        \A d \in DiveSet :
            ~InWindow(photo_time[1], d) =>
                IF Abs(photo_time[1] - d.time) <= 2 * 3600
                THEN /\ Cardinality(MatchesOf(d)) = 1
                     /\ \A i \in MatchesOf(d) :
                           matches[i].confidence = "near_dive"
                ELSE MatchesOf(d) = {}

\* C2 witness: a dive returned as near_dive exactly two hours after its
\* start, outside its window.
C2_Witness ==
    /\ Ranked
    /\ \E i \in 1..Len(matches) :
          /\ matches[i].confidence = "near_dive"
          /\ photo_time[1] - matches[i].dive.time = 7200
          /\ photo_time[1] > WindowEnd(matches[i].dive)

TierRank(m) ==
    IF m.confidence = "within_dive" THEN 1
    ELSE IF m.confidence = "near_dive" THEN 2 ELSE 3
Delta(m) == Abs(photo_time[1] - m.dive.time)
IndexPos(d) == CHOOSE i \in 1..Len(dives) : dives[i] = d

\* C3: the returned list is ascending in (tier rank, absolute difference to
\* the dive's start); candidates equal in both keep the order of the dive
\* index, which for equal start times is the order of the constructor's
\* list (the dive number of this model).
C3_RankOrder ==
    Ranked =>
        \A i, j \in 1..Len(matches) :
            i < j =>
                /\ TierRank(matches[i]) <= TierRank(matches[j])
                /\ TierRank(matches[i]) = TierRank(matches[j]) =>
                       Delta(matches[i]) <= Delta(matches[j])
                /\ ( /\ TierRank(matches[i]) = TierRank(matches[j])
                     /\ Delta(matches[i]) = Delta(matches[j]) ) =>
                       /\ IndexPos(matches[i].dive) < IndexPos(matches[j].dive)
                       /\ matches[i].dive.time = matches[j].dive.time =>
                              matches[i].dive.number < matches[j].dive.number

\* C3 witness: two candidates of equal tier and difference with different
\* start times, and two with the same start time.
C3_Witness ==
    /\ Ranked
    /\ \E i, j \in 1..Len(matches) :
          /\ i < j
          /\ TierRank(matches[i]) = TierRank(matches[j])
          /\ Delta(matches[i]) = Delta(matches[j])
          /\ matches[i].dive.time # matches[j].dive.time
    /\ \E i, j \in 1..Len(matches) :
          /\ i < j
          /\ TierRank(matches[i]) = TierRank(matches[j])
          /\ matches[i].dive.time = matches[j].dive.time

WithinIdx == { i \in 1..Len(matches) : matches[i].confidence = "within_dive" }
FirstWithin == CHOOSE i \in WithinIdx : \A k \in WithinIdx : i <= k

\* C4: when the ranked list holds a within_dive candidate, the call has
\* returned the first of them in rank order and input() was never called.
C4_WithinAutoAccept ==
    (Ranked /\ WithinIdx # {}) =>
        /\ m_pc = "done"
        /\ prompts = 0
        /\ m_result = Some(matches[FirstWithin])

\* C4 witness: two within_dive candidates and a near_dive one, resolved.
C4_Witness ==
    /\ Ranked
    /\ Cardinality(WithinIdx) >= 2
    /\ Cardinality(WithinIdx) < Len(matches)
    /\ m_pc = "done"
    /\ m_result = Some(matches[1])

\* C5: with an empty ranked list (also when the file has no capture time)
\* the call returns no match, with exactly one candidate it returns that
\* candidate; input() is called in neither case.
C5_EmptyAndSingle ==
    (m_pc \in { "prompt", "done" }) =>
        /\ photo_time = None => matches = <<>>
        /\ matches = <<>> =>
               (m_pc = "done" /\ m_result = None /\ prompts = 0)
        /\ Len(matches) = 1 =>
               (m_pc = "done" /\ m_result = Some(matches[1]) /\ prompts = 0)

\* C5 witness: a single near_dive candidate returned without a prompt.
C5_Witness ==
    /\ m_pc = "done"
    /\ Len(matches) = 1
    /\ matches[1].confidence = "near_dive"
    /\ m_result = Some(matches[1])
    /\ prompts = 0

Min(a, b) == IF a < b THEN a ELSE b
DecimalOf == << "1", "2", "3", "4", "5" >>

C6_State ==
    /\ (m_pc = "prompt" \/ prompts > 0) =>
           /\ Len(matches) >= 2
           /\ WithinIdx = {}
           /\ Len(presented) = Min(5, Len(matches))
           /\ \A k \in 1..Len(presented) : presented[k] = matches[k]
    /\ (m_pc = "done" /\ prompts > 0) =>
           \/ m_result = None
           \/ \E k \in 1..Len(presented) : m_result = Some(presented[k])

C6_Step ==
    (m_pc = "prompt" /\ prompts' = prompts + 1 /\ last_input' \in Lines) =>
        IF last_input' \in { "0", " 0" }
        THEN m_pc' = "done" /\ m_result' = None
        ELSE IF \E k \in 1..Len(presented) : last_input' = DecimalOf[k]
        THEN \E k \in 1..Len(presented) :
                /\ last_input' = DecimalOf[k]
                /\ m_pc' = "done"
                /\ m_result' = Some(matches[k])
        ELSE /\ m_pc' = "prompt"
             /\ m_result' = None
             /\ presented' = presented

\* C6: the prompt is reached only with two or more candidates none of which
\* is within_dive, and presents the first five at most; the line "0"
\* returns no match, the number k of a presented candidate returns the k-th
\* ranked candidate, any other line is rejected and the prompt repeated, so
\* a prompted call returns a presented candidate or no match.
C6_PromptSelection == [](C6_State) /\ [][C6_Step]_vars

\* C6 witness: six or more candidates, a rejected line, then "5" accepted.
C6_Witness ==
    /\ Len(matches) >= 6
    /\ m_pc = "done"
    /\ prompts >= 2
    /\ last_input = "5"
    /\ m_result = Some(matches[5])

\* C7: at the prompt, end of input and a keyboard interrupt both make the
\* call return no match.
C7_SignalsResolveToNoMatch ==
    [][ ( /\ m_pc = "prompt"
          /\ prompts' = prompts + 1
          /\ last_input' \in { EOFError, KeyboardInterrupt } ) =>
            (m_pc' = "done" /\ m_result' = None) ]_vars

----------------------------------------------------------------------------
(* Properties of set_gps_coordinates on still images, checked under SpecGps. *)

GpsReturned == g_pc = "done"

\* C8 as stated: the call returns True exactly when a write backend wrote
\* without error, tries piexif when exiv2 did not write, and returns False
\* instead of raising when both fail.
C8_TrueIffBackendWrote ==
    GpsReturned =>
        /\ g_result \in { "True", "False" }
        /\ g_result = "True" <=> g_wrote # {}
        /\ g_wrote = {} => g_tried = << "exiv2", "piexif" >>

\* C8 amended: the call never raises; with dry_run it returns True and no
\* backend is tried; without dry_run it returns True exactly when a write
\* backend wrote without error, exiv2 is tried first, piexif is tried
\* exactly when exiv2 did not write, and when both fail it returns False.
C8_WriteFallback ==
    GpsReturned =>
        /\ g_result \in { "True", "False" }
        /\ g_args.dry_run => (g_result = "True" /\ g_tried = <<>> /\ g_wrote = {})
        /\ ~g_args.dry_run =>
               /\ g_result = "True" <=> g_wrote # {}
               /\ g_tried = IF "exiv2" \in g_wrote THEN << "exiv2" >>
                            ELSE << "exiv2", "piexif" >>
               /\ g_wrote = {} => g_result = "False"

\* C8 witness: exiv2 raised, piexif was tried next and wrote, True returned.
C8_Witness ==
    /\ GpsReturned
    /\ ~g_args.dry_run
    /\ g_tried = << "exiv2", "piexif" >>
    /\ g_wrote = { "piexif" }
    /\ g_result = "True"

\* The state of the write: a call that tries no backend (none made yet, or
\* one with dry_run) has attempted nothing.
WriteState ==
    CASE g_pc = "exiv2" -> "TRYING(exiv2)"
      [] g_pc = "piexif" -> "TRYING(piexif)"
      [] g_pc = "done" /\ g_tried # <<>> /\ g_result = "True" -> "SUCCESS"
      [] g_pc = "done" /\ g_tried # <<>> /\ g_result # "True" -> "ALL_FAILED"
      [] OTHER -> "NOT_ATTEMPTED"

\* While a backend is tried, the backends tried before it in this call.
TriedInOrder ==
    /\ WriteState = "TRYING(exiv2)" => g_tried = <<>>
    /\ WriteState = "TRYING(piexif)" => g_tried = << "exiv2" >> /\ g_wrote = {}
    /\ WriteState = "SUCCESS" =>
           g_tried \in { << "exiv2" >>, << "exiv2", "piexif" >> }
           /\ g_wrote = { g_tried[Len(g_tried)] }
    /\ WriteState = "ALL_FAILED" =>
           g_tried = << "exiv2", "piexif" >> /\ g_wrote = {}

\* A call begins: only where no call is under way, with nothing tried.
CallBegins ==
    /\ WriteState \in { "NOT_ATTEMPTED", "SUCCESS", "ALL_FAILED" }
    /\ g_tried' = <<>> /\ g_wrote' = {}
    /\ WriteState' = IF g_args'.dry_run THEN "NOT_ATTEMPTED"
                     ELSE "TRYING(exiv2)"

\* The attempt of one backend ends: in SUCCESS when it wrote, else in
\* the state given.
AttemptEnds(backend, otherwise) ==
    /\ WriteState = "TRYING(" \o backend \o ")"
    /\ g_args' = g_args
    /\ g_tried' = Append(g_tried, backend)
    /\ \/ WriteState' = "SUCCESS" /\ g_wrote' = { backend }
       \/ WriteState' = otherwise /\ g_wrote' = {}

\* C20: within a call the write goes from NOT_ATTEMPTED to TRYING(exiv2),
\* from there to SUCCESS or to TRYING(piexif), and from there to SUCCESS or
\* to ALL_FAILED; each backend is tried at most once, in that order, none
\* after one has written, and nothing follows SUCCESS or ALL_FAILED but the
\* next call.
C20_WriteStateMachine ==
    /\ []TriedInOrder
    /\ [][\/ CallBegins
          \/ AttemptEnds("exiv2", "TRYING(piexif)")
          \/ AttemptEnds("piexif", "ALL_FAILED")]_vars

\* C20 witness: both backends were tried, in order, and none wrote.
C20_Witness ==
    /\ WriteState = "ALL_FAILED"
    /\ ~g_args.dry_run
    /\ g_tried = << "exiv2", "piexif" >>

----------------------------------------------------------------------------
(* Properties of the batch loop, checked under SpecBatch. *)

\* The site has coordinates: both Optional fields of DiveSite are set.
HasCoordinates(site) == site.latitude # None /\ site.longitude # None
CoordinatesOf(site) == Some(<<site.latitude[1], site.longitude[1]>>)

ItemSite == item.match[1].dive.site
ItemSidecar == sidecars[SidecarPath(item.path)]

\* The elements of every rdf:Description of a document.
DocElements(doc) ==
    UNION { Range(doc.descs[d]) : d \in 1..Len(doc.descs) }

\* The document holds the GPS elements written from these coordinates.
HoldsGps(doc, coordinates) ==
    Range(GpsElements(coordinates[1][1], coordinates[1][2]))
        \subseteq DocElements(doc)

\* C9: in a batch without --dry-run, for the item just handled, if it was
\* resolved to a dive whose site has coordinates then the sidecar write was
\* attempted, the coordinates were passed to it exactly when the in-place
\* write did not succeed, and if the item was counted as processed its
\* coordinates are in the media file or in its sidecar.
C9_SidecarFallback ==
    ( /\ item.idx > 0
      /\ ~dry_run
      /\ item.match # None
      /\ HasCoordinates(ItemSite) ) =>
        /\ item.xmp_attempted
        /\ item.xmp_gps = (IF item.gps_success THEN None
                           ELSE CoordinatesOf(ItemSite))
        /\ item.outcome = "processed" =>
               \/ media_gps[item.idx] = CoordinatesOf(ItemSite)
               \/ /\ ItemSidecar # None
                  /\ HoldsGps(ItemSidecar[1], CoordinatesOf(ItemSite))

\* C10: a video file whose capture time lies in the window of a dive is
\* resolved to a dive whose window contains that time, and is counted as
\* errored only if its sidecar write was attempted and failed.
C10_VideoResolved ==
    ( /\ item.idx > 0
      /\ ProcessorClass(item.path) = "VideoProcessor"
      /\ item.capture # None
      /\ \E d \in DiveSet : InWindow(item.capture[1], d) ) =>
        /\ item.match # None
        /\ InWindow(item.capture[1], item.match[1].dive)
        /\ item.match[1].photo_time = item.capture[1]
        /\ item.outcome = "errored" => item.xmp_attempted

----------------------------------------------------------------------------
(* Properties of create_xmp_sidecar, checked under SpecXmp. *)

OnImage == ProcessorClass(x_media) = "ImageProcessor"

\* The sidecar was there before the first call, as a document the update
\* path accepts.
InitiallyMergeable ==
    /\ x_initial # None
    /\ x_initial[1].wellformed
    /\ x_initial[1].descs # <<>>

\* The keyword containers anywhere in a document.
Containers(doc) == { e \in DocElements(doc) : e.tag \in KeywordTags }

\* Strictly ascending in Python's string order: sorted, no keyword twice.
Ascending(li) ==
    \A i, j \in 1..Len(li) : i < j => KeywordRank(li[i]) < KeywordRank(li[j])

\* C11: after the calls made so far on an image whose sidecar held the
\* keyword set K0 before the first of them, at least one of which wrote,
\* the keywords of the sidecar are K0 united with the keywords of the calls
\* that wrote, and every keyword container of the document holds each of
\* them exactly once, in lexicographic order.
C11_KeywordUnion ==
    ( OnImage /\ InitiallyMergeable /\ x_written ) =>
        LET all == ReadExistingXmpKeywords(x_initial[1]) \cup x_given
        IN /\ x_file # None
           /\ ReadExistingXmpKeywords(x_file[1]) = all
           /\ \A c \in Containers(x_file[1]) :
                 Range(c.li) = all /\ Ascending(c.li)

\* C11 on the sidecars whose keyword containers are all children of the
\* first rdf:Description, one of each tag at most.
C11_SingleContainers ==
    ( /\ InitiallyMergeable
      /\ \A d \in 2..Len(x_initial[1].descs) :
            DescKeywords(x_initial[1].descs[d]) = {}
      /\ \A t \in KeywordTags :
            Cardinality({ i \in 1..Len(x_initial[1].descs[1]) :
                            x_initial[1].descs[1][i].tag = t }) <= 1 ) =>
        C11_KeywordUnion

\* The children of one rdf:Description that have one of the tags, in
\* document order.
Children(desc, tags) ==
    LET keep == { i \in 1..Len(desc) : desc[i].tag \in tags }
    IN [i \in 1..Cardinality(keep) |-> desc[IthSmallest(keep, i)]]

\* The keyword and GPS elements of a document, description by description.
KeywordAndGpsElements(doc) ==
    [d \in 1..Len(doc.descs) |->
        Children(doc.descs[d], KeywordTags \cup GpsTags)]

SameArguments(c1, c2) ==
    /\ c1.keywords = c2.keywords
    /\ c1.latitude = c2.latitude
    /\ c1.longitude = c2.longitude

\* A call that wrote is followed by a call with the same keywords and
\* coordinates that wrote too.
MergedAgain ==
    /\ x_initial # None
    /\ x_call.called /\ x_call.ok /\ ~x_call.dry_run
    /\ x_call'.ok /\ ~x_call'.dry_run
    /\ SameArguments(x_call, x_call')

\* C12: on a sidecar that was there before the first call, a merge of a
\* keyword list and an optional pair of coordinates followed by a merge of
\* the same list and pair leaves the keyword elements and the GPS elements
\* as the first merge left them: the same entries in the same order.
C12_MergeIdempotent ==
    [][ MergedAgain =>
            KeywordAndGpsElements(x_file'[1]) = KeywordAndGpsElements(x_file[1])
      ]_vars

\* No tag occurs twice among the children of the first rdf:Description of
\* the sidecar the calls started from.
InitiallyOnePerTag ==
    /\ InitiallyMergeable
    /\ \A i, j \in 1..Len(x_initial[1].descs[1]) :
          x_initial[1].descs[1][i].tag = x_initial[1].descs[1][j].tag => i = j

\* C12 on the sidecars in whose first rdf:Description no tag occurs twice.
C12_OnePerTag ==
    [][ (MergedAgain /\ InitiallyOnePerTag) =>
            KeywordAndGpsElements(x_file'[1]) = KeywordAndGpsElements(x_file[1])
      ]_vars

\* The tags create_xmp_sidecar writes: the keyword containers, the GPS
\* elements and the capture time.
ManagedTags == KeywordTags \cup GpsTags \cup { "exif:DateTimeOriginal" }

UnmanagedElements(doc) == { e \in DocElements(doc) : e.tag \notin ManagedTags }

\* The keywords and the unmanaged elements of the sidecar before the step
\* are in the sidecar after it.
KeptByStep ==
    /\ x_file' # None
    /\ ReadExistingXmpKeywords(x_file[1])
           \subseteq ReadExistingXmpKeywords(x_file'[1])
    /\ UnmanagedElements(x_file[1]) \subseteq UnmanagedElements(x_file'[1])

\* C13: whatever the media file, a call of create_xmp_sidecar on a sidecar
\* that exists keeps every keyword and every unmanaged element it held.
C13_ExistingSidecarMerged == [][ x_file # None => KeptByStep ]_vars

\* C13 for the still images only.
C13_OnImages == [][ (x_file # None /\ OnImage) => KeptByStep ]_vars

\* The step is an update of an image's existing sidecar that wrote it.
ImageUpdated ==
    /\ OnImage
    /\ x_file # None
    /\ x_call'.ok /\ ~x_call'.dry_run

GpsPassed(c) == c.latitude # None /\ c.longitude # None

\* The tags the update may touch, given what was passed and what the image
\* holds.
TouchedTags(c) ==
    KeywordTags \cup (IF GpsPassed(c) THEN GpsTags ELSE {})
                \cup (IF x_capture # None THEN { "exif:DateTimeOriginal" }
                      ELSE {})

\* C14: when an image's existing sidecar is updated, the attribute of the
\* root and the number of rdf:Description elements stay, and in every
\* rdf:Description the elements other than the keyword containers, the
\* GPS elements if coordinates were passed and the capture time if the
\* image has one are the same, in the same order; so without coordinates
\* the GPS elements are unchanged.
C14_UpdatePreservesOthers ==
    [][ ImageUpdated =>
          LET before == x_file[1]
              after == x_file'[1]
              others == { e.tag : e \in DocElements(before) \cup DocElements(after) }
                            \ TouchedTags(x_call')
          IN /\ after.wellformed
             /\ after.xmptk = before.xmptk
             /\ Len(after.descs) = Len(before.descs)
             /\ \A d \in 1..Len(before.descs) :
                   Children(after.descs[d], others)
                       = Children(before.descs[d], others)
             /\ ~GpsPassed(x_call') =>
                   \A d \in 1..Len(before.descs) :
                       Children(after.descs[d], GpsTags)
                           = Children(before.descs[d], GpsTags)
      ]_vars

\* C14 witness: another tool's sidecar updated with keywords only, for an
\* image without capture time: new keyword containers, while the creator,
\* the rating, the GPS elements and the capture time are as they were.
C14_Witness ==
    /\ OnImage
    /\ x_initial = Some(DocOtherTool)
    /\ x_capture = None
    /\ x_call.ok /\ ~x_call.dry_run /\ ~GpsPassed(x_call)
    /\ x_file # x_initial
    /\ "New Site" \in ReadExistingXmpKeywords(x_file[1])
    /\ Children(x_file[1].descs[1], { "dc:creator", "xmp:Rating" } \cup GpsTags
                                    \cup { "exif:DateTimeOriginal" })
           = Children(DocOtherTool.descs[1],
                      { "dc:creator", "xmp:Rating" } \cup GpsTags
                          \cup { "exif:DateTimeOriginal" })

----------------------------------------------------------------------------
(* Further properties of the batch loop, checked under SpecBatch. *)

\* The item just handled is an image whose sidecar write was attempted on
\* an existing sidecar that is not XML or has no rdf:Description.
ItemSidecarCorrupt ==
    /\ item.xmp_attempted
    /\ ProcessorClass(item.path) = "ImageProcessor"
    /\ item.xmp_before # None
    /\ ~item.xmp_before[1].wellformed \/ item.xmp_before[1].descs = <<>>

\* C15: when the sidecar of the image just handled could not be parsed or
\* had no rdf:Description, create_xmp_sidecar returned False and the
\* sidecar is as it was, the item is counted as errored, and the loop is
\* left only after the last file.
C15_CorruptSidecarIsItemError ==
    ItemSidecarCorrupt =>
        /\ ~item.xmp_success
        /\ ItemSidecar = item.xmp_before
        /\ item.outcome = "errored"
        /\ error_count >= 1
        /\ b_idx < Len(media_files) => b_pc = "loop"
        /\ b_pc = "exited" => visited = media_files

\* C15 witness: the first file's sidecar has no rdf:Description, the item
\* is counted as errored, and the second file has been handled after it.
C15_Witness ==
    /\ Len(visited) = 2
    /\ visited[1] = Path("IMG_1", ".cr3")
    /\ sidecars["IMG_1"] = Some(DocNoDescription)
    /\ error_count = 2
    /\ ItemSidecarCorrupt
    /\ item.idx = 2
    /\ item.outcome = "errored"

\* What a step of a dry run may do: no in-place write, no sidecar write,
\* every file and sidecar as before.
NothingWritten ==
    /\ ~item'.gps_attempted
    /\ ~item'.xmp_attempted
    /\ media_gps' = media_gps
    /\ sidecars' = sidecars

\* C16: in a dry-run batch no step calls a write operation or changes a
\* media file or a sidecar, and an item matched to a dive whose site has
\* coordinates is counted as processed.
C16_DryRunWritesNothing ==
    [][ (dry_run /\ item' # item) =>
            /\ NothingWritten
            /\ (item'.match # None
                    /\ HasCoordinates(item'.match[1].dive.site)) =>
                  /\ item'.outcome = "processed"
                  /\ processed_count' = processed_count + 1
      ]_vars

\* C16 for the sites whose coordinates are both other than zero.
C16_NonZeroCoordinates ==
    [][ (dry_run /\ item' # item) =>
            /\ NothingWritten
            /\ (item'.match # None
                    /\ Truthy(item'.match[1].dive.site.latitude)
                    /\ Truthy(item'.match[1].dive.site.longitude)) =>
                  /\ item'.outcome = "processed"
                  /\ processed_count' = processed_count + 1
      ]_vars

\* C16 for the calls themselves (under SpecXmp): create_xmp_sidecar with
\* dry_run returns True and the sidecar is as it was, absent if it was.
C16_DryRunCall ==
    [][ (x_call' # x_call /\ x_call'.dry_run) =>
            x_call'.ok /\ x_file' = x_file ]_vars

C18_EveryFileVisitedInOrder ==
    /\ b_idx <= Len(media_files)
    /\ visited = SubSeq(media_files, 1, b_idx)
    /\ b_idx = processed_count + skipped_count + error_count
    /\ b_pc = "exited" => visited = media_files
    /\ b_idx < Len(media_files) => b_pc = "loop"

\* C18 witness: the first of two files was counted as errored, the second
\* was visited after it and skipped, and the loop ended after both.
C18_Witness ==
    /\ b_pc = "exited"
    /\ Len(media_files) = 2
    /\ visited = media_files
    /\ item.idx = 2
    /\ item.outcome = "skipped"
    /\ error_count = 1

----------------------------------------------------------------------------
(* Properties of the GPS round trip, checked under SpecDms. *)

\* The magnitude of the decimal minus the magnitude read back, in tenths of
\* a thousandth of an arc second (a micro-degree is 36 of them); whole
\* degrees are compared apart.
RoundTripError ==
    LET a == Abs(dm_value)
        b == Abs(dm_read[1])
    IN  (a \div MicroDegrees - b \div ThousandthsPerDegree) * 36 * MicroDegrees
        + 36 * (a % MicroDegrees) - 10 * (b % ThousandthsPerDegree)

SameHemisphere ==
    \/ dm_value >= 0 /\ dm_read[1] >= 0
    \/ dm_value <= 0 /\ dm_read[1] <= 0

\* The magnitude of the float d is that of the decimal plus a rounding
\* error of the sign dm_binary64, so at a decimal error of exactly
\* 1/3600000 degree the side of the float decides.
WithinTolerance ==
    /\ \/ RoundTripError < 10
       \/ RoundTripError = 10 /\ dm_binary64 <= 0
    /\ \/ RoundTripError > -10
       \/ RoundTripError = -10 /\ dm_binary64 >= 0

\* C19: a decimal degree value d written as degrees, minutes and thousandths
\* of a second and read back with its hemisphere sign differs from d by at
\* most 1/3600000 degree.
C19_DmsRoundTrip ==
    dm_pc = "read" => SameHemisphere /\ WithinTolerance

\* C19, up to binary64 rounding: the decimal d was parsed from is reproduced
\* within 1/3600000 degree, and in the right hemisphere.
C19_DecimalReproduced ==
    dm_pc = "read" => SameHemisphere /\ Abs(RoundTripError) <= 10

\* C19, where int() receives no float below a whole number: the error stays
\* under 1/3600000 degree.
C19_ExactTruncation ==
    dm_pc = "read" /\ dm_exif[1].dms = DecimalToDms(Abs(dm_value), FALSE)
        => SameHemisphere /\ Abs(RoundTripError) < 10

----------------------------------------------------------------------------
(* Properties of get_capture_time on still images, checked under           *)
(* SpecCapture.                                                            *)

\* What a backend yields on the file: a timestamp, or None.
Yields(backend) == BackendCaptureTime(backend, ct_views[backend], ct_file)

IsPrefix(s, t) == Len(s) <= Len(t) /\ s = SubSeq(t, 1, Len(s))

CaptureReturned == ct_pc = "done"

\* The backends are consulted in the order exiv2, piexif, exifread, one
\* after a backend that yielded nothing, none once the call has returned.
ConsultedInOrder ==
    /\ IsPrefix(ct_consulted, Backends)
    /\ ct_pc \in { "exiv2", "piexif", "exifread" } =>
           /\ Len(ct_consulted) < Len(Backends)
           /\ ct_pc = Backends[Len(ct_consulted) + 1]
           /\ \A i \in 1..Len(ct_consulted) : Yields(ct_consulted[i]) = None

\* C21: get_capture_time consults exiv2, then piexif, then exifread, returns
\* the timestamp of the first backend that yields one and consults no later
\* backend, and returns no timestamp only when all three yield none.
C21_BackendOrder ==
    /\ ConsultedInOrder
    /\ CaptureReturned =>
           /\ ct_consulted # <<>>
           /\ \A i \in 1..(Len(ct_consulted) - 1) :
                  Yields(ct_consulted[i]) = None
           /\ ct_result = Yields(ct_consulted[Len(ct_consulted)])
           /\ ct_result = None => ct_consulted = Backends

\* C21 witness: exiv2 raised on the file, piexif yielded the timestamp and
\* exifread, which has one too, was not consulted.
C21_Witness ==
    /\ CaptureReturned
    /\ ct_views["exiv2"].raised
    /\ ct_consulted = << "exiv2", "piexif" >>
    /\ ct_result # None
    /\ Yields("exifread") # None

\* A field the file holds as a date and that some backend exposes.
ExposedDate(field) ==
    /\ ct_file[field] # None
    /\ Strptime(ct_file[field][1]) # None
    /\ \E i \in 1..Len(Backends) :
          \E n \in ct_views[Backends[i]].exposed : FieldOf(n) = field

ExposedDates == { i \in 1..Len(DateTimeFields) : ExposedDate(DateTimeFields[i]) }

\* C22 as stated: the timestamp returned is that of the most preferred of
\* the fields DateTimeOriginal, DateTimeDigitized, DateTime that holds a
\* date, whichever backend exposes it; no timestamp is returned only when
\* no backend exposes a date.
C22_TagPreference ==
    CaptureReturned =>
        ct_result = IF ExposedDates = {} THEN None
                    ELSE Strptime(ct_file[DateTimeFields[Lowest(ExposedDates)]][1])

\* The backend whose answer the call returned, and what it has.
Answering == ct_consulted[Len(ct_consulted)]
ParseableOf(backend) ==
    Parseable(DatetimeTags(backend), ct_views[backend], ct_file)
ValueAt(backend, i) ==
    TagValue(ct_views[backend], ct_file, DatetimeTags(backend)[i])

\* C22 amended: the timestamp returned comes from the first backend, in the
\* order exiv2, piexif, exifread, that exposes a parseable tag, and is the
\* first parseable one in that backend's tag order: a lower-preference tag
\* is returned only when every higher-preference tag of that backend is
\* absent or unparseable, unparseable values are skipped, and no timestamp
\* is returned only when no backend has a parseable tag.
C22_TagPreferencePerBackend ==
    CaptureReturned =>
        /\ \A i \in 1..(Len(ct_consulted) - 1) :
               ParseableOf(ct_consulted[i]) = {}
        /\ ct_result = None =>
               \A i \in 1..Len(Backends) : ParseableOf(Backends[i]) = {}
        /\ ct_result # None =>
               \E i \in ParseableOf(Answering) :
                   /\ ct_result = Strptime(ValueAt(Answering, i)[1])
                   /\ \A j \in 1..(i - 1) :
                          \/ ValueAt(Answering, j) = None
                          \/ Strptime(ValueAt(Answering, j)[1]) = None

\* C22 witness: exiv2 has a DateTimeOriginal that does not parse and skips
\* it for the file-modified time, which it returns although piexif exposes
\* a parseable DateTimeDigitized.
C22_Witness ==
    /\ CaptureReturned
    /\ ct_consulted = << "exiv2" >>
    /\ ValueAt("exiv2", 1) = Some(BadText)
    /\ ValueAt("exiv2", 2) = None
    /\ ct_result = Strptime(GoodText("DateTime"))
    /\ ValueAt("piexif", 2) = Some(GoodText("DateTimeDigitized"))

\* Every backend that reads the file exposes every field the file holds.
FullViews ==
    \A i \in 1..Len(Backends) :
        \/ ct_views[Backends[i]].raised
        \/ \A x \in FieldSet :
               ct_file[x] # None =>
                   \E n \in ct_views[Backends[i]].exposed : FieldOf(n) = x

\* C22 as stated, where the backends that read the file all expose the
\* same fields.
C22_FullViews ==
    (CaptureReturned /\ FullViews) =>
        ct_result = IF ExposedDates = {} THEN None
                    ELSE Strptime(ct_file[DateTimeFields[Lowest(ExposedDates)]][1])

----------------------------------------------------------------------------
(* Properties of the processors' operations, checked under SpecOps. *)

\* The result of an operation that has no data, or did not write.
Soft == IF o_call.op = "set_gps_coordinates" THEN "False" ELSE "None"

\* Every backend of an image operation raised.
AllBackendsRaised ==
    /\ o_call.class = "ImageProcessor"
    /\ ~o_call.dry_run
    /\ \A i \in 1..Len(o_call.backends) : o_call.backends[i] = "raised"

\* The external tool of a video operation was run and did not start, did
\* not end within 30 seconds, ended with a non-zero exit code, or its
\* output cannot be parsed.
ToolFailed ==
    /\ o_call.class = "VideoProcessor"
    /\ ~o_call.dry_run
    /\ \/ o_call.launch # "started"
       \/ o_call.duration > 30
       \/ o_call.returncode # 0
       \/ o_call.stdout \in { "not json", "[]", "date not a string",
                              "gps not a number" }

\* C23: no operation of a processor raises to its caller; when every backend
\* of an image operation raises, or the external tool of a video operation
\* fails, times out or prints output that cannot be parsed, the operation
\* returns no data (False for the write), and a video operation has run the
\* tool exactly once.
C23_SoftFailure ==
    /\ o_result # "raised"
    /\ AllBackendsRaised => o_result = Soft
    /\ ToolFailed => o_result = Soft /\ o_runs = 1
    /\ (o_call.class = "VideoProcessor" /\ ~o_call.dry_run) => o_runs = 1

\* C23 witness: exiftool did not end within 30 seconds, get_capture_time of
\* the video returned None after the one run.
C23_Witness ==
    /\ o_call.class = "VideoProcessor"
    /\ o_call.op = "get_capture_time"
    /\ o_call.launch = "started"
    /\ o_call.duration > 30
    /\ o_result = "None"
    /\ o_runs = 1

\* C23 witness of the image side: piexif.load raised and get_current_gps
\* returned None.
C23_ImageWitness ==
    /\ o_call.class = "ImageProcessor"
    /\ o_call.op = "get_current_gps"
    /\ o_call.backends = << "raised" >>
    /\ o_result = "None"

----------------------------------------------------------------------------
(* Further properties of create_xmp_sidecar, checked under SpecXmp. *)

\* After the step the rdf:Description that was updated holds one element of
\* each GPS tag, with the coordinates passed, if coordinates were passed,
\* and one capture time element, with the image's time, if it has one.
OneOfEach ==
    LET desc == x_file'[1].descs[1]
    IN  /\ GpsPassed(x_call') =>
               Children(desc, GpsTags)
                   = GpsElements(x_call'.latitude[1], x_call'.longitude[1])
        /\ x_capture # None =>
               Children(desc, { "exif:DateTimeOriginal" })
                   = << DateTimeElement(x_capture[1]) >>

\* C24: after an image's existing sidecar is updated with a pair of
\* coordinates, its description holds exactly one GPSLatitude and one
\* GPSLongitude element, both with the new coordinates, however many it
\* held before, and after an update for an image with a capture time it
\* holds exactly one DateTimeOriginal element with that time.
C24_OneGpsAndDateTime == [][ ImageUpdated => OneOfEach ]_vars

\* C24 on the sidecars whose updated description held each tag once at
\* most before the first call.
C24_OnePerTag == [][ (ImageUpdated /\ InitiallyOnePerTag) => OneOfEach ]_vars

\* The step is a call on an image without sidecar that wrote one.
ImageCreated ==
    /\ OnImage
    /\ x_file = None
    /\ x_call'.ok /\ ~x_call'.dry_run

\* The sidecar of the image was not there before the calls and is now:
\* the create path wrote it.
OwnSidecar == OnImage /\ x_initial = None /\ x_file # None

\* The update path gets through a document: it parses and has an
\* rdf:Description.
Updatable(doc) == doc.wellformed /\ doc.descs # <<>>

\* C25: the sidecar the create path writes for an image is well-formed XML
\* whatever the keywords, so a later call on the same image parses it: a
\* later call fails only if the file system fails it.
C25_CreatedSidecarParses ==
    [][ /\ ImageCreated => x_file'[1].wellformed
        /\ OwnSidecar => Updatable(x_file[1])
      ]_vars

\* No keyword passed so far holds a character that XML reserves.
PlainKeywords ==
    /\ \A k \in x_given : ~XmlSpecial(k)
    /\ \A i \in 1..Len(x_call'.keywords) : ~XmlSpecial(x_call'.keywords[i])

\* C25 for keywords without characters that XML reserves.
C25_PlainKeywords ==
    [][ PlainKeywords =>
          /\ ImageCreated => x_file'[1].wellformed
          /\ OwnSidecar => Updatable(x_file[1])
      ]_vars

\* The step is a call on an image that wrote a sidecar that parses.
ImageWrote ==
    /\ OnImage
    /\ x_call'.ok /\ ~x_call'.dry_run
    /\ x_file'[1].wellformed

\* Both kinds of container are among cs, all hold one list, and that list
\* has every keyword passed to the call of the step.
SameListWithKeywords(cs) ==
    /\ { c.tag : c \in cs } = KeywordTags
    /\ \A c1, c2 \in cs : c1.li = c2.li
    /\ \A c \in cs : Range(x_call'.keywords) \subseteq Range(c.li)

\* C30: after a successful call on an image, creating or updating, the
\* dc:subject and the lightroom:hierarchicalSubject containers of the
\* sidecar hold the same keyword list, which has every keyword passed to
\* the call, whatever the containers held before.
C30_ContainersAgree ==
    [][ ImageWrote => SameListWithKeywords(Containers(x_file'[1])) ]_vars

\* C30 for the containers of the rdf:Description that the call wrote: one
\* of each kind, with the same list.
C30_WrittenDescription ==
    [][ ImageWrote =>
          LET cs == Children(x_file'[1].descs[1], KeywordTags)
          IN  /\ Len(cs) = 2
              /\ SameListWithKeywords(Range(cs))
      ]_vars

\* C30 for the sidecars that held their keyword containers in the first
\* rdf:Description, or none.
C30_SingleDescription ==
    [][ ( /\ ImageWrote
          /\ x_initial # None =>
                \A d \in 2..Len(x_initial[1].descs) :
                    DescKeywords(x_initial[1].descs[d]) = {} ) =>
            SameListWithKeywords(Containers(x_file'[1])) ]_vars

\* The dive numbers the camera tag check printed, under either heading.
Reported ==
    IF warnings = None THEN {}
    ELSE warnings[1].untagged_with_photos \cup warnings[1].tagged_without_photos

\* A dive that main matched some photo to and that lacks the tag, or that
\* has the tag and no photo matched to it.
Inconsistent(d) ==
    \/ d.number \in matched_dives /\ "camera" \notin d.tags
    \/ "camera" \in d.tags /\ d.number \notin matched_dives

\* Some photo of the batch was taken between the start and the end of d.
PhotoDuring(d) ==
    \E i \in 1..Len(photo_timestamps) :
        /\ d.time <= photo_timestamps[i]
        /\ photo_timestamps[i] <= d.time + d.duration_minutes * 60

\* The dive starts between the oldest and the newest photo.
StartsInPhotoRange(d) ==
    /\ photo_timestamps # <<>>
    /\ \E i \in 1..Len(photo_timestamps) : photo_timestamps[i] <= d.time
    /\ \E i \in 1..Len(photo_timestamps) : d.time <= photo_timestamps[i]

\* C26: when main has exited, the camera tag check has reported only
\* inconsistent dives, every inconsistent dive that starts within the photo
\* time range, and in particular every matched dive without the tag that a
\* photo was taken during.
C26_CameraTagWarnings ==
    b_pc = "exited" =>
        \A i \in 1..Len(dives) :
            LET d == dives[i]
            IN /\ d.number \in Reported => Inconsistent(d)
               /\ (StartsInPhotoRange(d) /\ Inconsistent(d)) =>
                      d.number \in Reported
               /\ ( /\ PhotoDuring(d)
                    /\ d.number \in matched_dives
                    /\ "camera" \notin d.tags ) => d.number \in Reported

\* C26 with the range read as the code reads it: a dive is reported iff it
\* starts between the oldest and the newest photo and is inconsistent.
C26_StartInRange ==
    b_pc = "exited" =>
        \A i \in 1..Len(dives) :
            dives[i].number \in Reported <=>
                (StartsInPhotoRange(dives[i]) /\ Inconsistent(dives[i]))

\* A run after which dives are listed under both headings.
C26_BothReported ==
    /\ b_pc = "exited"
    /\ warnings # None
    /\ warnings[1].untagged_with_photos # {}
    /\ warnings[1].tagged_without_photos # {}

\* C27: no two media files of a batch use the same sidecar path.
C27_OneMediaFilePerSidecar ==
    \A x \in SidecarPaths : Cardinality(sidecar_users[x]) <= 1

\* C27 for the batches whose media files have different stems.
C27_DistinctStems ==
    (\A i, j \in 1..Len(media_files) :
        SidecarPath(media_files[i]) = SidecarPath(media_files[j]) => i = j) =>
    \A x \in SidecarPaths : Cardinality(sidecar_users[x]) <= 1

\* C28: after every iteration the three counters add up to the number of
\* media files visited, and an iteration adds one to exactly one of them.
C28_CountersAddUp ==
    /\ [](processed_count + skipped_count + error_count = Len(visited))
    /\ [][ Len(visited') = Len(visited) + 1 =>
             \/ /\ processed_count' = processed_count + 1
                /\ UNCHANGED <<skipped_count, error_count>>
             \/ /\ skipped_count' = skipped_count + 1
                /\ UNCHANGED <<processed_count, error_count>>
             \/ /\ error_count' = error_count + 1
                /\ UNCHANGED <<processed_count, skipped_count>>
         ]_vars

\* A dry run that has counted a file on each of two different paths, and a
\* real run where an exception was counted after a write.
C28_Witness ==
    /\ Len(visited) = 2
    /\ error_count = 1
    /\ \/ dry_run /\ processed_count = 1
       \/ ~dry_run /\ skipped_count = 1

\* C29: an item that was matched is skipped only if the site of its dive
\* has no latitude or no longitude; with both defined, 0 included, it goes
\* on to the write step.
C29_SkippedOnlyWithoutCoordinates ==
    (item.match # None /\ item.outcome = "skipped") =>
        \/ item.match[1].dive.site.latitude = None
        \/ item.match[1].dive.site.longitude = None

\* C29 for the sites none of whose coordinates is 0.
C29_AwayFromZero ==
    (item.match # None /\ item.outcome = "skipped") =>
        ~( /\ Truthy(item.match[1].dive.site.latitude)
           /\ Truthy(item.match[1].dive.site.longitude) )

====
